---- MODULE Spec2Model ----
(***************************************************************************)
(* Verification model of the site-layout-optimizer backend.                *)
(*                                                                         *)
(*   SpecRate  : middleware/rate_limit.py + main.py rate_limit_middleware  *)
(*   SpecOpt   : handlers/optimize.py request deduplication, result cache  *)
(*   SpecCache : utils/cache.py get_cached, set_cached, clear_cache        *)
(*   SpecMemo  : utils/cache.py cached decorator                           *)
(*   SpecPlace : services/asset_placer.py place_assets                     *)
(*   SpecRoad  : services/road_generator.py generate_road_network          *)
(*   SpecAStar : services/road_generator.py a_star_pathfinding             *)
(*   SpecUpload: handlers/upload.py upload_file and                        *)
(*               services/geospatial_processor.py process_upload           *)
(*   SpecExport: handlers/export.py export_layout                          *)
(*   SpecGis   : handlers/gis_integration.py layout registry and exports   *)
(*   SpecAi    : services/ai_optimizer.py _call_openai                     *)
(*   SpecReg   : services/regulatory_fetcher.py fetch_all_regulatory_data  *)
(*   SpecCutFill : services/cutfill_calculator.py calculate_volumes        *)
(*   SpecGeoJson : handlers/export.py _export_geojson                      *)
(*   SpecRateInfo: middleware/rate_limit.py get_rate_limit_info            *)
(*   SpecOptTime : handlers/optimize.py result cache under the clock       *)
(*   SpecOptReq  : handlers/optimize.py _get_request_hash on request bodies*)
(***************************************************************************)
EXTENDS Integers, Sequences, FiniteSets, TLC

(***************************************************************************)
(* Bounds of the model.                                                    *)
(***************************************************************************)
NumThreads == 2
MaxTime == 70
TickStep == 30
MaxRequests == 7
MaxNewFingerprints == 3
MaxFailures == 1
MaxSets == 3
MaxCalls == 3
MemoTtl == 60

Threads == 1..NumThreads

VARIABLES
    now,          \* wall clock, seconds (datetime.now())
    rl_store,     \* _rate_limit_store : key -> entry, or NoEntry
    rl_lock,      \* _rate_limit_lock : 0 when free, else the holding thread
    rpc,          \* per request thread: position in middleware/check_rate_limit
    rreq,         \* per request thread: [client, path] of the request
    rnow,         \* per request thread: local `now` of check_rate_limit
    rres,         \* per request thread: value returned by check_rate_limit
    rstatus,      \* per request thread: HTTP status of the middleware response
    rhandled,     \* per request thread: TRUE when call_next reached routing
    nreq,         \* number of requests to throttled paths issued so far
    accepted,     \* history: key -> times at which check_rate_limit recorded
    rejectedEver  \* history: keys for which a request has been rejected

VARIABLES
    pending,      \* _pending_requests : set of fingerprints marked in flight
    results,      \* _request_results : dict in insertion order, <<fp, body>>
    req_lock,     \* _request_lock : 0 when free, else the holding thread
    opc,          \* per request thread: position in optimize_layout
    ofp,          \* per request thread: request_hash of its request
    obody,        \* per request thread: the response body it computed
    oresp,        \* per request thread: [status, body] of its HTTP response
    oseen,        \* number of distinct fingerprints issued so far
    onfail,       \* number of processing failures injected so far
    storeLog,     \* history: fingerprints in the order their results were stored
    storeTimes    \* history: the time of each of these stores

optVars == <<pending, results, req_lock, opc, ofp, obody, oresp, oseen, onfail,
             storeLog, storeTimes>>

VARIABLES
    cache,        \* _cache : key -> entry, or NoCacheEntry
    clast,        \* the last cache operation made and what it returned
    nsets,        \* number of set_cached calls made so far
    lastSet,      \* history: key -> the most recent set_cached of the key
    clearedSince, \* history: key -> cleared since its most recent set_cached
    wpc,          \* per thread: position in the wrapper of `cached`
    warg,         \* per thread: argument of its wrapped call
    wval,         \* per thread: value the wrapped function returned
    wret,         \* per thread: value the wrapper returned
    ncalls,       \* number of wrapped calls made so far
    callAt,       \* history: argument -> time of its first wrapped call
    memo          \* history: argument -> the wrapper's latest store for it

VARIABLES
    pl_in,        \* place_assets arguments: [w, h, entry, reqs]
    pl_idx,       \* index of the next asset requirement of the for loop
    placed,       \* placed_assets
    ppc           \* "run" inside place_assets, "done" once it has returned

placeVars == <<pl_in, pl_idx, placed, ppc>>

VARIABLES
    rd_in,         \* generate_road_network input: [assets, pathOf]
    rd_idx,        \* index of the next element of the loop under way
    road_segments, \* road_segments, then optimized_segments
    road_network,  \* road_network
    rdpc,          \* "paths", "optimize", "build", "return" or "done"
    rd_ret         \* the dictionary generate_road_network returned

roadVars == <<rd_in, rd_idx, road_segments, road_network, rdpc, rd_ret>>

VARIABLES
    as_in,         \* a_star_pathfinding arguments: [w, h, start, goal, zones, res]
    as_start,      \* start, after the boundary validation
    as_goal,       \* goal, after the boundary validation
    open_set,      \* the heap: set of <<f, x, y>> entries
    came_from,     \* came_from : point -> point, or NoPoint
    g_score,       \* g_score : point -> cost, or NoScore
    visited,       \* visited
    iterations,    \* iterations
    as_path,       \* the returned path (<<>> when none is returned)
    apc            \* "begin", "loop", "found", "none" or "idle"

astarVars == <<as_in, as_start, as_goal, open_set, came_from, g_score,
               visited, iterations, as_path, apc>>

cacheVars == <<cache, clast, nsets, lastSet, clearedSince>>
memoVars == <<wpc, warg, wval, wret, ncalls, callAt, memo>>

rlVars == <<rl_store, rl_lock, rpc, rreq, rnow, rres, rstatus, rhandled,
            nreq, accepted, rejectedEver>>

VARIABLES
    up_in,         \* the upload: [name, copy, file, parse, data, geoms, bucket]
    upc,           \* position in upload_file and process_upload
    up_idx,        \* index of the next property of the geometry loop
    tmp_exists,    \* the temporary file of the request exists on disk
    up_status,     \* HTTP status of the response, 0 while there is none
    up_log         \* history: the steps process_upload made, in order

uploadVars == <<up_in, upc, up_idx, tmp_exists, up_status, up_log>>

VARIABLES
    ex_req,        \* the export request: [layout, format, render]
    xpc,           \* position in export_layout
    ex_tmp,        \* temporary files on disk: suffix -> number of files
    ex_status,     \* HTTP status of the response, 0 while there is none
    ex_count       \* number of export requests made so far

exportVars == <<ex_req, xpc, ex_tmp, ex_status, ex_count>>

VARIABLES
    layouts_store, \* _layouts_store: the registered layout ids
    gis_resp,      \* the last /gis response: [op, id, known, status]
    gis_count      \* number of /gis operations made so far

gisVars == <<layouts_store, gis_resp, gis_count>>

VARIABLES
    ai_key,        \* an API key is configured (self.api_key)
    aipc,          \* position in _call_openai: "idle", "post" or "done"
    ai_prompt,     \* the prompt of the call under way
    ai_outcome,    \* what the remote request of the call came to
    ai_ret,        \* the value the call returned
    ai_posts,      \* remote requests made by the call under way
    ai_calls       \* number of calls made so far

aiVars == <<ai_key, aipc, ai_prompt, ai_outcome, ai_ret, ai_posts, ai_calls>>

VARIABLES
    reg_pc,        \* position in fetch_all_regulatory_data
    reg_bounds,    \* the bounds of the call under way
    reg_out,       \* per source, what its request came to
    reg_entries,   \* per source, the entry its fetch returned
    reg_queries,   \* per source, requests made by the call under way
    reg_ret,       \* the value the call returned
    reg_calls      \* number of calls made so far

regVars == <<reg_pc, reg_bounds, reg_out, reg_entries, reg_queries, reg_ret,
             reg_calls>>

VARIABLES
    cf_in,         \* the call: [dem, grades, boundary, resolution]
    cf_pc,         \* position in calculate_volumes and _create_proposed_dem
    proposed_dem,  \* the proposed elevation grid
    base_dem,      \* the proposed grid before pads and roads are stamped
    vertex_elev,   \* the elevation used at each road vertex stamped so far
    cut_volumes,   \* per-cell cut depth
    fill_volumes,  \* per-cell fill depth
    cf_out         \* the totals returned

cutfillVars == <<cf_in, cf_pc, proposed_dem, base_dem, vertex_elev,
                 cut_volumes, fill_volumes, cf_out>>

VARIABLES
    gj_layout,     \* the layout: [properties, exclusion_zones, assets, roads]
    gj_pc,         \* position in _export_geojson
    gj_features,   \* the features list built so far
    gj_metadata    \* the metadata block of the response

geojsonVars == <<gj_layout, gj_pc, gj_features, gj_metadata>>

VARIABLES
    ipc,           \* position of the caller of get_rate_limit_info
    info_req,      \* the request it passed: [client, path]
    info_ret       \* the dictionary it got back

infoVars == <<ipc, info_req, info_ret>>

VARIABLES
    oreq,          \* the OptimizeRequest each worker is handling
    narrived       \* number of optimize requests received with their bodies

reqVars == <<oreq, narrived>>

\* the service components, and what each of them leaves alone
svcVars == <<roadVars, astarVars, uploadVars, exportVars, gisVars, aiVars,
        regVars, cutfillVars, geojsonVars, infoVars, reqVars>>
notRoad == <<now, rlVars, optVars, cacheVars, memoVars, placeVars,
        astarVars, uploadVars, exportVars, gisVars, aiVars, regVars,
        cutfillVars, geojsonVars, infoVars, reqVars>>
notAStar == <<now, rlVars, optVars, cacheVars, memoVars, placeVars,
        roadVars, uploadVars, exportVars, gisVars, aiVars, regVars,
        cutfillVars, geojsonVars, infoVars, reqVars>>
notUpload == <<now, rlVars, optVars, cacheVars, memoVars, placeVars,
        roadVars, astarVars, exportVars, gisVars, aiVars, regVars,
        cutfillVars, geojsonVars, infoVars, reqVars>>
notExport == <<now, rlVars, optVars, cacheVars, memoVars, placeVars,
        roadVars, astarVars, uploadVars, gisVars, aiVars, regVars,
        cutfillVars, geojsonVars, infoVars, reqVars>>
notGis == <<now, rlVars, optVars, cacheVars, memoVars, placeVars, roadVars,
        astarVars, uploadVars, exportVars, aiVars, regVars, cutfillVars,
        geojsonVars, infoVars, reqVars>>
notAi == <<rlVars, optVars, memoVars, placeVars, roadVars, astarVars,
        uploadVars, exportVars, gisVars, regVars, cutfillVars, geojsonVars,
        infoVars, reqVars>>
notReg == <<rlVars, optVars, memoVars, placeVars, roadVars, astarVars,
        uploadVars, exportVars, gisVars, aiVars, cutfillVars, geojsonVars,
        infoVars, reqVars>>
notCutFill == <<now, rlVars, optVars, cacheVars, memoVars, placeVars,
        roadVars, astarVars, uploadVars, exportVars, gisVars, aiVars,
        regVars, geojsonVars, infoVars, reqVars>>
notGeoJson == <<now, rlVars, optVars, cacheVars, memoVars, placeVars,
        roadVars, astarVars, uploadVars, exportVars, gisVars, aiVars,
        regVars, cutfillVars, infoVars, reqVars>>
notInfo == <<now, optVars, cacheVars, memoVars, placeVars, roadVars,
        astarVars, uploadVars, exportVars, gisVars, aiVars, regVars,
        cutfillVars, geojsonVars, reqVars>>
notReq == <<now, rlVars, cacheVars, memoVars, placeVars, roadVars,
        astarVars, uploadVars, exportVars, gisVars, aiVars, regVars,
        cutfillVars, geojsonVars, infoVars>>

vars == <<now, rlVars, optVars, cacheVars, memoVars, placeVars, svcVars>>

\* the state of the other components, left alone by a component's steps
notRate == <<optVars, cacheVars, memoVars, placeVars, svcVars>>
notOpt == <<now, rlVars, cacheVars, memoVars, placeVars, svcVars>>
notMemo == <<rlVars, optVars, placeVars, svcVars>>
notPlace == <<now, rlVars, optVars, cacheVars, memoVars, svcVars>>

(***************************************************************************)
(* Small helpers.                                                          *)
(***************************************************************************)
\* Python `needle in hay` on strings (sequences of characters)
IsSubstring(needle, hay) ==
    \E i \in 0..(Len(hay) - Len(needle)) :
        \A j \in 1..Len(needle) : hay[i + j] = needle[j]

(***************************************************************************)
(* middleware/rate_limit.py                                                *)
(***************************************************************************)
NoEntry == [absent |-> TRUE]
NoConfig == [max_requests |-> 0, window_seconds |-> 0]

\* RATE_LIMITS, in dict (insertion) order
RATE_LIMITS == <<
    [endpoint |-> <<"/","o","p","t","i","m","i","z","e">>,
     max_requests |-> 10, window_seconds |-> 60],
    [endpoint |-> <<"/","a","n","a","l","y","z","e">>,
     max_requests |-> 20, window_seconds |-> 60],
    [endpoint |-> <<"/","g","e","n","e","r","a","t","e","-","r","o","a","d","s">>,
     max_requests |-> 20, window_seconds |-> 60],
    [endpoint |-> <<"/","u","p","l","o","a","d">>,
     max_requests |-> 5, window_seconds |-> 60] >>

\* request paths issued by the clients of the model
PathNames == {"upload", "health"}
PathChars(p) ==
    IF p = "upload"
    THEN <<"/","a","p","i","/","u","p","l","o","a","d">>
    ELSE <<"/","h","e","a","l","t","h">>

Clients == {"c1", "c2"}
Keys == Clients \X PathNames

\* for endpoint, config in RATE_LIMITS.items(): if endpoint in path: ... break
FirstMatch(p) ==
    LET hits == {i \in DOMAIN RATE_LIMITS :
                    IsSubstring(RATE_LIMITS[i].endpoint, PathChars(p))}
    IN IF hits = {} THEN NoConfig
       ELSE LET first == CHOOSE i \in hits : \A j \in hits : i <= j
            IN [max_requests |-> RATE_LIMITS[first].max_requests,
                window_seconds |-> RATE_LIMITS[first].window_seconds]

\* limit_config of every request path of the model
LimitTable == [p \in PathNames |-> FirstMatch(p)]
LimitConfig(p) == LimitTable[p]

KeyOf(t) == <<rreq[t].client, rreq[t].path>>

\* variant: the lock does not exclude other requests
LockFreeNoExclusion(l) == TRUE

\* `with _rate_limit_lock:` can be entered
LockFree(l) == l = 0

\* variant: a timestamp exactly one window old is kept
InWindowInclusive(req_time, window_start) == req_time >= window_start

\* req_time > window_start
InWindow(req_time, window_start) == req_time > window_start

\* len(entry['requests']) >= max_requests
LimitExceeded(n, max_requests) == n >= max_requests

\* keep last 10
RESULT_CACHE_MAX == 10

\* the fingerprints whose property_boundary has fewer than 3 points
ShortBoundaries == {3, RESULT_CACHE_MAX + 1}
BoundaryPoints(fp) == IF fp \in ShortBoundaries THEN 2 ELSE 3

\* The store order of a service that has served, one after the other, the
\* first RESULT_CACHE_MAX fingerprints (those with a valid boundary succeeded).
RECURSIVE ServedInOrder(_)
ServedInOrder(n) ==
    IF n = 0 THEN <<>>
    ELSE IF BoundaryPoints(n) < 3 THEN ServedInOrder(n - 1)
         ELSE Append(ServedInOrder(n - 1), n)

\* The handler starts either cold (nothing served yet) or warm (the result
\* cache one entry short of its cap, every entry the first result of its
\* fingerprint).
OptInitAs(warm) ==
    /\ pending = {}
    /\ storeLog = IF warm THEN ServedInOrder(RESULT_CACHE_MAX) ELSE <<>>
    /\ storeTimes = [i \in DOMAIN storeLog |-> 0]
    /\ results = [i \in DOMAIN storeLog |-> [key |-> storeLog[i], value |-> 1]]
    /\ oseen = IF warm THEN RESULT_CACHE_MAX ELSE 0
    /\ req_lock = 0
    /\ opc = [t \in Threads |-> "idle"]
    /\ ofp = [t \in Threads |-> 0]
    /\ obody = [t \in Threads |-> 0]
    /\ oresp = [t \in Threads |-> [status |-> 0, body |-> 0]]
    /\ onfail = 0

OptInit == \E warm \in BOOLEAN : OptInitAs(warm)

\* None
None == 0
NoCacheEntry == [absent |-> TRUE]
NoSet == [absent |-> TRUE]

\* cache keys, as strings (sequences of characters)
CacheKeys == {<<"a">>, <<"a", "b">>, <<"b", "a">>}

\* arguments of the wrapped function
MemoArgs == {1, 2}

CacheInit ==
    /\ cache = [k \in CacheKeys |-> NoCacheEntry]
    /\ clast = [op |-> "none"]
    /\ nsets = 0
    /\ lastSet = [k \in CacheKeys |-> NoSet]
    /\ clearedSince = [k \in CacheKeys |-> FALSE]

MemoInit ==
    /\ wpc = [t \in Threads |-> "idle"]
    /\ warg = [t \in Threads |-> 0]
    /\ wval = [t \in Threads |-> None]
    /\ wret = [t \in Threads |-> None]
    /\ ncalls = 0
    /\ callAt = [a \in MemoArgs |-> -1]
    /\ memo = [a \in MemoArgs |-> NoSet]

\* no place_assets call is under way
PlaceIdle ==
    /\ pl_in = [w |-> 0, h |-> 0, entry |-> <<0, 0>>, reqs |-> <<>>]
    /\ pl_idx = 1
    /\ placed = <<>>
    /\ ppc = "done"

\* no generate_road_network call is under way
RoadIdle ==
    /\ rd_in = [assets |-> <<>>, pathOf |-> <<>>]
    /\ rd_idx = 1
    /\ road_segments = <<>>
    /\ road_network = <<>>
    /\ rdpc = "done"
    /\ rd_ret = [absent |-> TRUE]

\* no a_star_pathfinding call is under way
AStarIdle ==
    /\ as_in = [w |-> 0, h |-> 0, start |-> <<0, 0>>, goal |-> <<0, 0>>,
                zones |-> {}, res |-> 0]
    /\ as_start = <<0, 0>>
    /\ as_goal = <<0, 0>>
    /\ open_set = {}
    /\ came_from = <<>>
    /\ g_score = <<>>
    /\ visited = {}
    /\ iterations = 0
    /\ as_path = <<>>
    /\ apc = "idle"

\* no process_upload call is under way
UploadIdle ==
    /\ up_in = [name |-> "ok", copy |-> "ok", file |-> "ok", parse |-> "ok",
                data |-> "ok", geoms |-> <<>>, bucket |-> FALSE]
    /\ upc = "idle"
    /\ up_idx = 1
    /\ tmp_exists = FALSE
    /\ up_status = 0
    /\ up_log = <<>>

\* no export request is under way and no temporary file exists
ExportIdle ==
    /\ ex_req = [layout |-> [given |-> FALSE, lists |-> {}],
                 format |-> "geojson", render |-> "ok"]
    /\ xpc = "idle"
    /\ ex_tmp = [s \in {"pdf", "kmz"} |-> 0]
    /\ ex_status = 0
    /\ ex_count = 0

\* the layout registry is empty and no /gis request has been made
GisInit ==
    /\ layouts_store = {}
    /\ gis_resp = [op |-> "none", id |-> 0, known |-> FALSE, status |-> 0]
    /\ gis_count = 0

\* no _call_openai call is under way
AiIdleWith(key) ==
    /\ ai_key = key
    /\ aipc = "idle"
    /\ ai_prompt = 0
    /\ ai_outcome = "none"
    /\ ai_ret = 0
    /\ ai_posts = 0
    /\ ai_calls = 0

AiIdle == AiIdleWith(FALSE)

\* the three sources, in the order fetch_all_regulatory_data queries them
Sources == <<"flood_zones", "wetlands", "topographic">>
SourceNames == {Sources[i] : i \in 1..Len(Sources)}
NoSourceEntry == [unset |-> TRUE]

\* no fetch_all_regulatory_data call is under way
RegIdle ==
    /\ reg_pc = "idle"
    /\ reg_bounds = 0
    /\ reg_out = [s \in SourceNames |-> "none"]
    /\ reg_entries = [s \in SourceNames |-> NoSourceEntry]
    /\ reg_queries = [s \in SourceNames |-> 0]
    /\ reg_ret = 0
    /\ reg_calls = 0

\* no calculate_volumes call is under way
CutFillIdle ==
    /\ cf_in = [absent |-> TRUE]
    /\ cf_pc = "idle"
    /\ proposed_dem = <<>>
    /\ base_dem = <<>>
    /\ vertex_elev = <<>>
    /\ cut_volumes = <<>>
    /\ fill_volumes = <<>>
    /\ cf_out = [absent |-> TRUE]

\* no _export_geojson call is under way
GeoJsonIdle ==
    /\ gj_layout = [absent |-> TRUE]
    /\ gj_pc = "idle"
    /\ gj_features = <<>>
    /\ gj_metadata = [absent |-> TRUE]

\* no get_rate_limit_info call is under way
InfoIdle ==
    /\ ipc = "idle"
    /\ info_req = [absent |-> TRUE]
    /\ info_ret = [absent |-> TRUE]

\* no optimize request with a body has been received
ReqIdle ==
    /\ oreq = [t \in Threads |-> [absent |-> TRUE]]
    /\ narrived = 0

\* no operation of a service component is under way
SvcIdle ==
    /\ RoadIdle
    /\ AStarIdle
    /\ UploadIdle
    /\ ExportIdle
    /\ GisInit
    /\ AiIdle
    /\ RegIdle
    /\ CutFillIdle
    /\ GeoJsonIdle
    /\ InfoIdle
    /\ ReqIdle
RoadAlone ==
    /\ AStarIdle
    /\ UploadIdle
    /\ ExportIdle
    /\ GisInit
    /\ AiIdle
    /\ RegIdle
    /\ CutFillIdle
    /\ GeoJsonIdle
    /\ InfoIdle
    /\ ReqIdle
AStarAlone ==
    /\ RoadIdle
    /\ UploadIdle
    /\ ExportIdle
    /\ GisInit
    /\ AiIdle
    /\ RegIdle
    /\ CutFillIdle
    /\ GeoJsonIdle
    /\ InfoIdle
    /\ ReqIdle
UploadAlone ==
    /\ RoadIdle
    /\ AStarIdle
    /\ ExportIdle
    /\ GisInit
    /\ AiIdle
    /\ RegIdle
    /\ CutFillIdle
    /\ GeoJsonIdle
    /\ InfoIdle
    /\ ReqIdle
ExportAlone ==
    /\ RoadIdle
    /\ AStarIdle
    /\ UploadIdle
    /\ GisInit
    /\ AiIdle
    /\ RegIdle
    /\ CutFillIdle
    /\ GeoJsonIdle
    /\ InfoIdle
    /\ ReqIdle
GisAlone ==
    /\ RoadIdle
    /\ AStarIdle
    /\ UploadIdle
    /\ ExportIdle
    /\ AiIdle
    /\ RegIdle
    /\ CutFillIdle
    /\ GeoJsonIdle
    /\ InfoIdle
    /\ ReqIdle
AiAlone ==
    /\ RoadIdle
    /\ AStarIdle
    /\ UploadIdle
    /\ ExportIdle
    /\ GisInit
    /\ RegIdle
    /\ CutFillIdle
    /\ GeoJsonIdle
    /\ InfoIdle
    /\ ReqIdle
RegAlone ==
    /\ RoadIdle
    /\ AStarIdle
    /\ UploadIdle
    /\ ExportIdle
    /\ GisInit
    /\ AiIdle
    /\ CutFillIdle
    /\ GeoJsonIdle
    /\ InfoIdle
    /\ ReqIdle
CutFillAlone ==
    /\ RoadIdle
    /\ AStarIdle
    /\ UploadIdle
    /\ ExportIdle
    /\ GisInit
    /\ AiIdle
    /\ RegIdle
    /\ GeoJsonIdle
    /\ InfoIdle
    /\ ReqIdle
GeoJsonAlone ==
    /\ RoadIdle
    /\ AStarIdle
    /\ UploadIdle
    /\ ExportIdle
    /\ GisInit
    /\ AiIdle
    /\ RegIdle
    /\ CutFillIdle
    /\ InfoIdle
    /\ ReqIdle
InfoAlone ==
    /\ RoadIdle
    /\ AStarIdle
    /\ UploadIdle
    /\ ExportIdle
    /\ GisInit
    /\ AiIdle
    /\ RegIdle
    /\ CutFillIdle
    /\ GeoJsonIdle
    /\ ReqIdle
ReqAlone ==
    /\ RoadIdle
    /\ AStarIdle
    /\ UploadIdle
    /\ ExportIdle
    /\ GisInit
    /\ AiIdle
    /\ RegIdle
    /\ CutFillIdle
    /\ GeoJsonIdle
    /\ InfoIdle

RateInit ==
    /\ rl_store = [k \in Keys |-> NoEntry]
    /\ rl_lock = 0
    /\ rpc = [t \in Threads |-> "idle"]
    /\ rreq = [t \in Threads |-> [client |-> "c1", path |-> "health"]]
    /\ rnow = [t \in Threads |-> 0]
    /\ rres = [t \in Threads |-> TRUE]
    /\ rstatus = [t \in Threads |-> 0]
    /\ rhandled = [t \in Threads |-> FALSE]
    /\ nreq = 0
    /\ accepted = [k \in Keys |-> <<>>]
    /\ rejectedEver = {}

\* time passes
Tick ==
    /\ now + TickStep <= MaxTime
    /\ now' = now + TickStep
    /\ UNCHANGED <<rlVars, optVars, cacheVars, memoVars, placeVars, svcVars>>

\* rate_limit_middleware: a JSONResponse with status 429 when check_rate_limit
\* returned False, else the response of call_next(request)
MiddlewareStatus(allowed) == IF ~allowed THEN 429 ELSE 200
MiddlewareCallsNext(allowed) == allowed

\* a request enters rate_limit_middleware; check_rate_limit looks up its
\* config and returns True at once for an unthrottled path
RateArrive(t) ==
    /\ rpc[t] = "idle"
    /\ \E c \in Clients, p \in PathNames :
          /\ rreq' = [rreq EXCEPT ![t] = [client |-> c, path |-> p]]
          /\ IF LimitConfig(p) = NoConfig
             THEN /\ UNCHANGED nreq
                  /\ rres' = [rres EXCEPT ![t] = TRUE]
                  /\ rstatus' = [rstatus EXCEPT ![t] = MiddlewareStatus(TRUE)]
                  /\ rhandled' = [rhandled EXCEPT ![t] =
                                     MiddlewareCallsNext(TRUE)]
                  /\ rpc' = [rpc EXCEPT ![t] = "done"]
             ELSE /\ nreq < MaxRequests
                  /\ nreq' = nreq + 1
                  /\ rpc' = [rpc EXCEPT ![t] = "lock"]
                  /\ UNCHANGED <<rres, rstatus, rhandled>>
    /\ UNCHANGED <<now, rl_store, rl_lock, rnow, accepted, rejectedEver>>
    /\ UNCHANGED notRate

\* with _rate_limit_lock: now = datetime.now(); get or create the entry
RateAcquire(t) ==
    /\ rpc[t] = "lock"
    /\ LockFree(rl_lock)
    /\ rl_lock' = t
    /\ rnow' = [rnow EXCEPT ![t] = now]
    /\ rl_store' = IF rl_store[KeyOf(t)] = NoEntry
                   THEN [rl_store EXCEPT ![KeyOf(t)] =
                            [requests |-> <<>>, window_start |-> now]]
                   ELSE rl_store
    /\ rpc' = [rpc EXCEPT ![t] = "prune"]
    /\ UNCHANGED <<now, rreq, rres, rstatus, rhandled, nreq, accepted,
                   rejectedEver>>
    /\ UNCHANGED notRate

\* variant: nothing is ever removed from the list
PruneListNever(requests, at, window_seconds) == requests

\* entry['requests'] = [r for r in entry['requests'] if r > now - window]
PruneList(requests, at, window_seconds) ==
    LET window_start == at - window_seconds
        RECURSIVE Keep(_)
        Keep(s) == IF s = <<>> THEN <<>>
                   ELSE IF InWindow(Head(s), window_start)
                        THEN <<Head(s)>> \o Keep(Tail(s))
                        ELSE Keep(Tail(s))
    IN Keep(requests)

RatePrune(t) ==
    /\ rpc[t] = "prune"
    /\ LET k == KeyOf(t)
           cfg == LimitConfig(rreq[t].path)
       IN rl_store' = [rl_store EXCEPT ![k].requests =
                          PruneList(rl_store[k].requests, rnow[t],
                                    cfg.window_seconds)]
    /\ rpc' = [rpc EXCEPT ![t] = "check"]
    /\ UNCHANGED <<now, rl_lock, rreq, rnow, rres, rstatus, rhandled,
                   nreq, accepted, rejectedEver>>
    /\ UNCHANGED notRate

\* if len(entry['requests']) >= max_requests: return False
\* entry['requests'].append(now); return True
\* The lock is released on return and the middleware builds its response from
\* the returned value.
RateCheck(t) ==
    /\ rpc[t] = "check"
    /\ LET k == KeyOf(t)
           cfg == LimitConfig(rreq[t].path)
           allowed == ~LimitExceeded(Len(rl_store[k].requests),
                                     cfg.max_requests)
       IN /\ IF ~allowed
             THEN /\ rejectedEver' = rejectedEver \cup {k}
                  /\ UNCHANGED <<rl_store, accepted>>
             ELSE /\ rl_store' = [rl_store EXCEPT ![k].requests =
                                     Append(rl_store[k].requests, rnow[t])]
                  /\ accepted' = [accepted EXCEPT ![k] = Append(@, rnow[t])]
                  /\ UNCHANGED rejectedEver
          /\ rres' = [rres EXCEPT ![t] = allowed]
          /\ rstatus' = [rstatus EXCEPT ![t] = MiddlewareStatus(allowed)]
          /\ rhandled' = [rhandled EXCEPT ![t] = MiddlewareCallsNext(allowed)]
    /\ rl_lock' = 0
    /\ rnow' = [rnow EXCEPT ![t] = 0]
    /\ rpc' = [rpc EXCEPT ![t] = "done"]
    /\ UNCHANGED <<now, rreq, nreq>>
    /\ UNCHANGED notRate

\* the response has been sent; the worker is free for the next request
RateFinish(t) ==
    /\ rpc[t] = "done"
    /\ rpc' = [rpc EXCEPT ![t] = "idle"]
    /\ rreq' = [rreq EXCEPT ![t] = [client |-> "c1", path |-> "health"]]
    /\ rres' = [rres EXCEPT ![t] = TRUE]
    /\ rstatus' = [rstatus EXCEPT ![t] = 0]
    /\ rhandled' = [rhandled EXCEPT ![t] = FALSE]
    /\ UNCHANGED <<now, rl_store, rl_lock, rnow, nreq, accepted, rejectedEver>>
    /\ UNCHANGED notRate

InitRate ==
    /\ now = 0 /\ RateInit /\ OptInitAs(FALSE) /\ CacheInit /\ MemoInit
    /\ PlaceIdle /\ SvcIdle

NextRate ==
    \/ Tick
    \/ \E t \in Threads : RateArrive(t)
    \/ \E t \in Threads : RateAcquire(t)
    \/ \E t \in Threads : RatePrune(t)
    \/ \E t \in Threads : RateCheck(t)
    \/ \E t \in Threads : RateFinish(t)

SpecRate == InitRate /\ [][NextRate]_vars

(***************************************************************************)
(* Properties of the rate limiter.                                         *)
(***************************************************************************)
\* number of recorded acceptances of a key inside the window (at - w, at]
AcceptedInWindow(k, at, w) ==
    Cardinality({i \in DOMAIN accepted[k] :
                    accepted[k][i] > at - w /\ accepted[k][i] <= at})

\* C1: a request to a throttled path is passed on exactly when fewer than
\* max_requests requests of the same client and path were accepted inside the
\* window ending at its own timestamp (so N requests in one window pass, one
\* more is rejected, and after the window has elapsed a request passes again);
\* a rejected request is answered 429 and never reaches a handler, a passed
\* one reaches routing.
C1_RateLimitBoundary ==
    [][\A t \in Threads :
        (rpc[t] = "check" /\ rpc'[t] = "done") =>
            LET cfg == LimitConfig(rreq[t].path)
                room == AcceptedInWindow(KeyOf(t), rnow[t],
                            cfg.window_seconds) < cfg.max_requests
            IN IF room THEN rhandled'[t] /\ rstatus'[t] # 429
                       ELSE rstatus'[t] = 429 /\ ~rhandled'[t]
      ]_vars

\* C1 witness: five requests accepted at time 0, a further one rejected, and
\* a sixth accepted once the window had elapsed and passed on to routing.
C1_Witness ==
    \E t \in Threads :
        /\ rpc[t] = "done" /\ rhandled[t]
        /\ KeyOf(t) \in rejectedEver
        /\ Len(accepted[KeyOf(t)]) = 6
        /\ accepted[KeyOf(t)][5] = 0
        /\ accepted[KeyOf(t)][6] >= 60

\* C2: under every interleaving, the requests of one key accepted with
\* timestamps inside any one window (s - window_seconds, s] never number more
\* than max_requests.  (The count of a window only grows when its right end
\* moves onto a timestamp, so the windows ending at a recorded timestamp
\* cover every window.)
C2_AtMostMaxPerWindow ==
    \A k \in Keys : \A s \in {accepted[k][i] : i \in DOMAIN accepted[k]} :
        LET cfg == LimitConfig(k[2])
        IN cfg # NoConfig =>
             AcceptedInWindow(k, s, cfg.window_seconds) <= cfg.max_requests

\* C2 witness: one request is inside the critical section with one slot left
\* for its key while another request for the same key waits for the lock.
C2_Witness ==
    \E t1, t2 \in Threads :
        /\ t1 # t2
        /\ rpc[t1] = "check" /\ rpc[t2] = "lock"
        /\ KeyOf(t1) = KeyOf(t2)
        /\ Len(rl_store[KeyOf(t1)].requests) =
               LimitConfig(rreq[t1].path).max_requests - 1

(***************************************************************************)
(* handlers/optimize.py                                                    *)
(***************************************************************************)
\* a dict in insertion order is a sequence of [key, value] without repeated key
DictHas(d, k) == \E i \in DOMAIN d : d[i].key = k
DictGet(d, k) == d[CHOOSE i \in DOMAIN d : d[i].key = k].value
\* d[k] = v : in place when k is present, else appended
DictSet(d, k, v) ==
    IF DictHas(d, k)
    THEN [i \in DOMAIN d |-> IF d[i].key = k THEN [key |-> k, value |-> v]
                                             ELSE d[i]]
    ELSE Append(d, [key |-> k, value |-> v])
\* del d[k]
DictDel(d, k) ==
    LET RECURSIVE Drop(_)
        Drop(r) == IF r = <<>> THEN <<>>
                   ELSE IF Head(r).key = k THEN Tail(r)
                        ELSE <<Head(r)>> \o Drop(Tail(r))
    IN Drop(d)

\* the steps of the try block after the boundary check that can raise
FailingSteps == {"regulatory", "placement", "ai", "response"}

\* variant: the first key is not the one evicted
NewestKey(d) == d[Len(d)].key

\* oldest_key = next(iter(_request_results))
OldestKey(d) == d[1].key

\* variant: a cached result is not found
CacheHitNever(d, fp) == FALSE

\* request_hash in _request_results
CacheHit(d, fp) == DictHas(d, fp)

\* variant: the in-flight marker is not consulted
AlreadyPendingNever(p, fp) == FALSE

\* request_hash in _pending_requests
AlreadyPending(p, fp) == fp \in p

\* variant: the error path leaves the marker in place
ErrorCleanupKeeps(p, fp) == p

\* except: if request_hash in _pending_requests: del _pending_requests[...]
ErrorCleanup(p, fp) == p \ {fp}

\* variant: storing the result leaves the marker in place
StoreCleanupKeeps(p, fp) == p

\* if request_hash in _pending_requests: del _pending_requests[request_hash]
StoreCleanup(p, fp) == p \ {fp}

\* `with _request_lock:` can be entered
RequestLockFree(l) == l = 0

\* fingerprints are numbered as they first appear; a run brings at most
\* MaxNewFingerprints new ones, after a cold or after a warm start
FreshAllowed(fp) ==
    \/ fp <= MaxNewFingerprints
    \/ fp > RESULT_CACHE_MAX /\ fp <= RESULT_CACHE_MAX + MaxNewFingerprints

\* number of results stored since the start
StoredSinceStart ==
    Len(storeLog) - (IF oseen >= RESULT_CACHE_MAX
                     THEN Len(ServedInOrder(RESULT_CACHE_MAX)) ELSE 0)

\* the fingerprints a new request can have: a new one, the one issued last,
\* or the one issued first
ArrivingFingerprints ==
    {fp \in {1, oseen, oseen + 1} :
        fp >= 1 /\ (fp <= oseen \/ FreshAllowed(fp))}

\* POST /optimize arrives; request_hash = _get_request_hash(request)
OptArrive(t) ==
    /\ opc[t] = "idle"
    /\ StoredSinceStart < MaxNewFingerprints
    /\ \E fp \in ArrivingFingerprints :
          /\ ofp' = [ofp EXCEPT ![t] = fp]
          /\ oseen' = IF fp > oseen THEN fp ELSE oseen
    /\ opc' = [opc EXCEPT ![t] = "check"]
    /\ UNCHANGED <<pending, results, req_lock, obody, oresp, onfail, storeLog,
                   storeTimes>>
    /\ UNCHANGED notOpt

\* first `with _request_lock:` block: cached result, 202, or mark as pending
OptCheck(t) ==
    /\ opc[t] = "check"
    /\ RequestLockFree(req_lock)
    /\ IF CacheHit(results, ofp[t])
       THEN /\ oresp' = [oresp EXCEPT ![t] =
                            [status |-> 200, body |-> DictGet(results, ofp[t])]]
            /\ opc' = [opc EXCEPT ![t] = "done"]
            /\ UNCHANGED pending
       ELSE IF AlreadyPending(pending, ofp[t])
       THEN /\ oresp' = [oresp EXCEPT ![t] = [status |-> 202, body |-> 0]]
            /\ opc' = [opc EXCEPT ![t] = "done"]
            /\ UNCHANGED pending
       ELSE /\ pending' = pending \cup {ofp[t]}
            /\ opc' = [opc EXCEPT ![t] = "process"]
            /\ UNCHANGED oresp
    /\ UNCHANGED <<results, req_lock, ofp, obody, oseen, onfail, storeLog,
                   storeTimes>>
    /\ UNCHANGED notOpt

\* the response body a computation of fp produces: bodies of different
\* computations of one fingerprint differ (terrain_data, attributes and the AI
\* answer are not part of the fingerprint)
ComputedBody(fp) ==
    1 + Cardinality({i \in DOMAIN storeLog : storeLog[i] = fp})

\* the try block: boundary check, regulatory fetch, placement, AI analysis,
\* response building
OptProcess(t) ==
    /\ opc[t] = "process"
    /\ IF BoundaryPoints(ofp[t]) < 3
       THEN /\ opc' = [opc EXCEPT ![t] = "except"]
            /\ UNCHANGED <<obody, onfail>>
       ELSE \/ /\ onfail < MaxFailures
               /\ \E step \in FailingSteps : TRUE
               /\ onfail' = onfail + 1
               /\ opc' = [opc EXCEPT ![t] = "except"]
               /\ UNCHANGED obody
            \/ /\ obody' = [obody EXCEPT ![t] = ComputedBody(ofp[t])]
               /\ opc' = [opc EXCEPT ![t] = "store"]
               /\ UNCHANGED onfail
    /\ UNCHANGED <<pending, results, req_lock, ofp, oresp, oseen, storeLog,
                   storeTimes>>
    /\ UNCHANGED notOpt

\* second `with _request_lock:` block, up to the cache insert
OptStore(t) ==
    /\ opc[t] = "store"
    /\ RequestLockFree(req_lock)
    /\ req_lock' = t
    /\ pending' = StoreCleanup(pending, ofp[t])
    /\ results' = DictSet(results, ofp[t], obody[t])
    /\ storeLog' = Append(storeLog, ofp[t])
    /\ storeTimes' = Append(storeTimes, now)
    /\ opc' = [opc EXCEPT ![t] = "evict"]
    /\ UNCHANGED <<ofp, obody, oresp, oseen, onfail>>
    /\ UNCHANGED notOpt

\* if len(_request_results) > 10: del _request_results[oldest_key];
\* the lock is released and the result returned
OptEvict(t) ==
    /\ opc[t] = "evict"
    /\ results' = IF Len(results) > RESULT_CACHE_MAX
                  THEN DictDel(results, OldestKey(results))
                  ELSE results
    /\ req_lock' = 0
    /\ oresp' = [oresp EXCEPT ![t] = [status |-> 200, body |-> obody[t]]]
    /\ opc' = [opc EXCEPT ![t] = "done"]
    /\ UNCHANGED <<pending, ofp, obody, oseen, onfail, storeLog,
                   storeTimes>>
    /\ UNCHANGED notOpt

\* except Exception: clean up under the lock, then raise HTTPException(500)
OptExcept(t) ==
    /\ opc[t] = "except"
    /\ RequestLockFree(req_lock)
    /\ pending' = ErrorCleanup(pending, ofp[t])
    /\ oresp' = [oresp EXCEPT ![t] = [status |-> 500, body |-> 0]]
    /\ opc' = [opc EXCEPT ![t] = "done"]
    /\ UNCHANGED <<results, req_lock, ofp, obody, oseen, onfail, storeLog,
                   storeTimes>>
    /\ UNCHANGED notOpt

\* the response has been sent; the worker is free for the next request
OptFinish(t) ==
    /\ opc[t] = "done"
    /\ opc' = [opc EXCEPT ![t] = "idle"]
    /\ ofp' = [ofp EXCEPT ![t] = 0]
    /\ obody' = [obody EXCEPT ![t] = 0]
    /\ oresp' = [oresp EXCEPT ![t] = [status |-> 0, body |-> 0]]
    /\ UNCHANGED <<pending, results, req_lock, oseen, onfail, storeLog,
                   storeTimes>>
    /\ UNCHANGED notOpt

InitOpt ==
    /\ now = 0 /\ RateInit /\ OptInit /\ CacheInit /\ MemoInit
    /\ PlaceIdle /\ SvcIdle

NextOpt ==
    \/ \E t \in Threads : OptArrive(t)
    \/ \E t \in Threads : OptCheck(t)
    \/ \E t \in Threads : OptProcess(t)
    \/ \E t \in Threads : OptStore(t)
    \/ \E t \in Threads : OptEvict(t)
    \/ \E t \in Threads : OptExcept(t)
    \/ \E t \in Threads : OptFinish(t)

SpecOpt == InitOpt /\ [][NextOpt]_vars

(***************************************************************************)
(* Properties of the optimize handler.                                     *)
(***************************************************************************)
\* the requests marked in flight for fingerprint fp and not yet cleaned up
InFlight(fp) ==
    {t \in Threads : ofp[t] = fp /\ opc[t] \in {"process", "store", "except"}}

\* C3: a request whose fingerprint has a result in the result cache returns
\* exactly the stored response with status 200, goes to no processing step,
\* and leaves the in-flight map and the result cache as they are.
C3_CachedReplay ==
    [][\A t \in Threads :
        (opc[t] = "check" /\ opc'[t] # "check" /\ DictHas(results, ofp[t])) =>
            /\ opc'[t] = "done"
            /\ oresp'[t] = [status |-> 200, body |-> DictGet(results, ofp[t])]
            /\ pending' = pending
            /\ results' = results
            /\ storeLog' = storeLog
      ]_vars

\* C3 witness: a request has been answered from the cache (it computed no
\* body itself) with the body a previous request stored.
C3_Witness ==
    \E t \in Threads :
        /\ opc[t] = "done" /\ oresp[t].status = 200 /\ obody[t] = 0
        /\ DictHas(results, ofp[t])
        /\ oresp[t].body = DictGet(results, ofp[t])

\* C4: at most one request per fingerprint is in flight at any time, and a
\* request that finds its fingerprint in flight and not cached is answered 202
\* at once without entering processing.
C4_SingleFlight ==
    [][/\ \A fp \in 1..(RESULT_CACHE_MAX + MaxNewFingerprints) :
              Cardinality(InFlight(fp))' <= 1
       /\ \A t \in Threads :
            (/\ opc[t] = "check" /\ opc'[t] # "check"
             /\ ofp[t] \in pending /\ ~DictHas(results, ofp[t])) =>
                /\ opc'[t] = "done"
                /\ oresp'[t] = [status |-> 202, body |-> 0]
                /\ pending' = pending /\ results' = results
      ]_vars

\* C4 witness: one request is being processed and an identical one has been
\* answered 202.
C4_Witness ==
    \E t1, t2 \in Threads :
        /\ t1 # t2 /\ ofp[t1] = ofp[t2]
        /\ opc[t1] = "process"
        /\ opc[t2] = "done" /\ oresp[t2].status = 202

\* C5: when processing fails, the step that produces the 500 has removed the
\* in-flight marker of the fingerprint, stores nothing in the result cache,
\* and leaves no result cached for it; so a later identical request is not
\* answered 202 on account of the failed one.
C5_FailureClearsMarker ==
    [][\A t \in Threads :
        (opc[t] = "except" /\ opc'[t] # "except") =>
            /\ opc'[t] = "done" /\ oresp'[t].status = 500
            /\ ofp[t] \notin pending'
            /\ results' = results
            /\ ~DictHas(results', ofp[t])
      ]_vars

\* C5 witness: a request has failed with 500 and a later identical request is
\* being processed.
C5_Witness ==
    \E t1, t2 \in Threads :
        /\ t1 # t2 /\ ofp[t1] = ofp[t2]
        /\ opc[t1] = "done" /\ oresp[t1].status = 500
        /\ opc[t2] = "process"

\* position of the latest store of fp in the store history
LastStored(fp) ==
    CHOOSE i \in DOMAIN storeLog :
        /\ storeLog[i] = fp
        /\ \A j \in DOMAIN storeLog : storeLog[j] = fp => j <= i

\* C6: while the request lock is free the result cache holds at most 10
\* entries; the step that finds more than 10 removes exactly one entry, the
\* one stored earliest among those present, and never the one just stored.
C6_BoundedFifoCache ==
    [][/\ (req_lock' = 0 => Len(results') <= 10)
       /\ \A t \in Threads :
            (opc[t] = "evict" /\ opc'[t] # "evict" /\ Len(results) > 10) =>
                \E i \in DOMAIN results :
                    /\ results' = [j \in 1..(Len(results) - 1) |->
                                      IF j < i THEN results[j]
                                               ELSE results[j + 1]]
                    /\ results[i].key # ofp[t]
                    /\ \A j \in DOMAIN results :
                          LastStored(results[i].key)
                              <= LastStored(results[j].key)
      ]_vars

\* C6 witness: an eleventh result was stored and the eviction has run.
C6_Witness ==
    /\ req_lock = 0
    /\ Len(results) = 10
    /\ \E t \in Threads :
          /\ opc[t] = "done" /\ oresp[t].status = 200 /\ obody[t] # 0
          /\ DictHas(results, ofp[t])
          /\ ~DictHas(results, 1)

(***************************************************************************)
(* utils/cache.py                                                          *)
(***************************************************************************)
\* values stored by the callers of the model (None included)
CacheValues == {None, 1}
\* TTLs in seconds passed to set_cached
CacheTtls == {30, 60}
\* prefixes passed to clear_cache; given = FALSE is the default None
NoPrefix == [given |-> FALSE, text |-> <<>>]
CachePrefixes ==
    {NoPrefix} \cup {[given |-> TRUE, text |-> p] :
                        p \in {<<>>, <<"a">>, <<"b">>, <<"a", "b">>}}

\* variant: an entry is still served at its expiry time
CacheFreshInclusive(at, expires_at) == at <= expires_at

\* datetime.now() < entry['expires_at']
CacheFresh(at, expires_at) == at < expires_at

\* variant: the prefix is looked for anywhere in the key
StartsWithAnywhere(k, p) == IsSubstring(p, k)

\* k.startswith(p)
StartsWith(k, p) ==
    /\ Len(p) <= Len(k)
    /\ \A i \in 1..Len(p) : k[i] = p[i]

\* `if prefix:` : None and the empty string are falsy
Truthy(prefix) == prefix.given /\ prefix.text # <<>>

\* get_cached: the value returned
GetCachedValue(c, k, at) ==
    IF c[k] # NoCacheEntry /\ CacheFresh(at, c[k].expires_at)
    THEN c[k].value ELSE None

\* get_cached: the store it leaves (an expired entry is deleted)
GetCachedStore(c, k, at) ==
    IF c[k] # NoCacheEntry /\ ~CacheFresh(at, c[k].expires_at)
    THEN [c EXCEPT ![k] = NoCacheEntry] ELSE c

\* set_cached
SetCachedStore(c, k, v, ttl, at) ==
    [c EXCEPT ![k] = [value |-> v, expires_at |-> at + ttl, created_at |-> at]]

\* clear_cache
ClearCacheStore(c, prefix) ==
    IF Truthy(prefix)
    THEN [k \in DOMAIN c |->
             IF StartsWith(k, prefix.text) THEN NoCacheEntry ELSE c[k]]
    ELSE [k \in DOMAIN c |-> NoCacheEntry]

\* the keys a clear_cache(prefix) is documented to remove
ClearedBy(prefix) ==
    {k \in CacheKeys :
        ~prefix.given \/ (Len(prefix.text) <= Len(k)
                          /\ SubSeq(k, 1, Len(prefix.text)) = prefix.text)}

CacheSet(k, v, ttl) ==
    /\ nsets < MaxSets
    /\ nsets' = nsets + 1
    /\ cache' = SetCachedStore(cache, k, v, ttl, now)
    /\ clast' = [op |-> "set", key |-> k]
    /\ lastSet' = [lastSet EXCEPT ![k] = [value |-> v, at |-> now, ttl |-> ttl]]
    /\ clearedSince' = [clearedSince EXCEPT ![k] = FALSE]
    /\ UNCHANGED <<now, memoVars>>
    /\ UNCHANGED notMemo

CacheGet(k) ==
    /\ cache' = GetCachedStore(cache, k, now)
    /\ clast' = [op |-> "get", key |-> k,
                 result |-> GetCachedValue(cache, k, now)]
    /\ UNCHANGED <<now, nsets, lastSet, clearedSince, memoVars>>
    /\ UNCHANGED notMemo

CacheClear(prefix) ==
    /\ cache' = ClearCacheStore(cache, prefix)
    /\ clast' = [op |-> "clear", prefix |-> prefix]
    /\ clearedSince' = [k \in CacheKeys |->
                           clearedSince[k] \/ k \in ClearedBy(prefix)]
    /\ UNCHANGED <<now, nsets, lastSet, memoVars>>
    /\ UNCHANGED notMemo

InitCache ==
    /\ now = 0 /\ RateInit /\ OptInitAs(FALSE) /\ CacheInit /\ MemoInit
    /\ PlaceIdle /\ SvcIdle

NextCache ==
    \/ Tick
    \/ \E k \in CacheKeys, v \in CacheValues, ttl \in CacheTtls :
          CacheSet(k, v, ttl)
    \/ \E k \in CacheKeys : CacheGet(k)
    \/ \E prefix \in CachePrefixes : CacheClear(prefix)

SpecCache == InitCache /\ [][NextCache]_vars

(***************************************************************************)
(* Properties of the expiring cache.                                       *)
(***************************************************************************)
\* the most recent set_cached of k is still in force at time `at`
InForce(k, at) ==
    /\ lastSet[k] # NoSet
    /\ ~clearedSince[k]
    /\ at < lastSet[k].at + lastSet[k].ttl

\* C7: get_cached(k) returns the value of the most recent set_cached of k
\* when the current time is strictly before that set's time plus its ttl and
\* k was not cleared since, and None otherwise; a get that finds the entry
\* expired deletes it; and an entry leaves the store only by such an expired
\* get of its key or by a clear_cache.
C7_GetSetExpiry ==
    [][/\ (clast'.op = "get" /\ now' = now) =>
             LET k == clast'.key
             IN /\ clast'.result = IF InForce(k, now) THEN lastSet[k].value
                                                      ELSE None
                /\ (cache[k] # NoCacheEntry /\ ~InForce(k, now))
                       => cache'[k] = NoCacheEntry
       /\ \A k \in CacheKeys :
             (cache[k] # NoCacheEntry /\ cache'[k] = NoCacheEntry) =>
                 \/ clast'.op = "clear" /\ k \in ClearedBy(clast'.prefix)
                 \/ /\ clast'.op = "get" /\ clast'.key = k
                    /\ now >= lastSet[k].at + lastSet[k].ttl
      ]_vars

\* C7 witness: a get has found the entry of its key expired, returned None
\* and deleted it, while another key keeps its entry.
C7_Witness ==
    /\ clast.op = "get"
    /\ clast.result = None
    /\ lastSet[clast.key] # NoSet /\ lastSet[clast.key].value # None
    /\ ~clearedSince[clast.key]
    /\ cache[clast.key] = NoCacheEntry
    /\ \E k \in CacheKeys : cache[k] # NoCacheEntry

\* C8: clear_cache(prefix) removes exactly the entries whose key starts with
\* the prefix and leaves every other entry as it was; clear_cache() removes
\* all entries.
C8_ClearByPrefix ==
    [][clast'.op = "clear" =>
          \A k \in CacheKeys :
              cache'[k] = IF k \in ClearedBy(clast'.prefix) THEN NoCacheEntry
                                                            ELSE cache[k]
      ]_vars

\* C8 witness: a clear with a prefix has removed an entry and kept the entry
\* of a key in which the prefix occurs but not at the start.
C8_Witness ==
    /\ clast.op = "clear"
    /\ clast.prefix = [given |-> TRUE, text |-> <<"a">>]
    /\ clearedSince[<<"a">>] /\ lastSet[<<"a">>] # NoSet
    /\ cache[<<"a">>] = NoCacheEntry
    /\ cache[<<"b", "a">>] # NoCacheEntry

(***************************************************************************)
(* utils/cache.py : the `cached` decorator                                 *)
(***************************************************************************)
\* values the wrapped function can return
FuncResults == {None, 1, 2}

\* cache_key = generate_cache_key(f"{key_prefix}:{func.__name__}", *args):
\* "<prefix>:<first 16 hex digits of a SHA-256>", taken as one key per argument
MemoKey(a) == IF a = 1 THEN <<"a">> ELSE <<"b", "a">>

\* cached_value is not None
IsHit(cached_value) == cached_value # None

\* wrapper: key generation and get_cached; a hit is returned at once
MemoCall(t) ==
    /\ wpc[t] = "idle"
    /\ ncalls < MaxCalls
    /\ ncalls' = ncalls + 1
    /\ \E a \in MemoArgs :
          LET cached_value == GetCachedValue(cache, MemoKey(a), now)
          IN /\ warg' = [warg EXCEPT ![t] = a]
             /\ cache' = GetCachedStore(cache, MemoKey(a), now)
             /\ callAt' = IF callAt[a] = -1 THEN [callAt EXCEPT ![a] = now]
                                           ELSE callAt
             /\ IF IsHit(cached_value)
                THEN /\ wret' = [wret EXCEPT ![t] = cached_value]
                     /\ wpc' = [wpc EXCEPT ![t] = "done"]
                ELSE /\ wpc' = [wpc EXCEPT ![t] = "invoke"]
                     /\ UNCHANGED wret
    /\ UNCHANGED <<now, clast, nsets, lastSet, clearedSince, wval, memo>>
    /\ UNCHANGED notMemo

\* result = func(*args, **kwargs)
MemoInvoke(t) ==
    /\ wpc[t] = "invoke"
    /\ \E v \in FuncResults : wval' = [wval EXCEPT ![t] = v]
    /\ wpc' = [wpc EXCEPT ![t] = "store"]
    /\ UNCHANGED <<now, cacheVars, warg, wret, ncalls, callAt, memo>>
    /\ UNCHANGED notMemo

\* set_cached(cache_key, result, ttl); return result
MemoStore(t) ==
    /\ wpc[t] = "store"
    /\ cache' = SetCachedStore(cache, MemoKey(warg[t]), wval[t], MemoTtl, now)
    /\ memo' = [memo EXCEPT ![warg[t]] = [value |-> wval[t], at |-> now]]
    /\ wret' = [wret EXCEPT ![t] = wval[t]]
    /\ wpc' = [wpc EXCEPT ![t] = "done"]
    /\ UNCHANGED <<now, clast, nsets, lastSet, clearedSince, warg, wval,
                   ncalls, callAt>>
    /\ UNCHANGED notMemo

\* the wrapper has returned
MemoFinish(t) ==
    /\ wpc[t] = "done"
    /\ wpc' = [wpc EXCEPT ![t] = "idle"]
    /\ warg' = [warg EXCEPT ![t] = 0]
    /\ wval' = [wval EXCEPT ![t] = None]
    /\ wret' = [wret EXCEPT ![t] = None]
    /\ UNCHANGED <<now, cacheVars, ncalls, callAt, memo>>
    /\ UNCHANGED notMemo

\* clear_cache() by some other caller; the calls made before it no longer
\* count as earlier calls
MemoClear ==
    /\ cache' = ClearCacheStore(cache, NoPrefix)
    /\ memo' = [a \in MemoArgs |-> NoSet]
    /\ callAt' = [a \in MemoArgs |-> -1]
    /\ UNCHANGED <<now, clast, nsets, lastSet, clearedSince, wpc, warg, wval,
                   wret, ncalls>>
    /\ UNCHANGED notMemo

InitMemo ==
    /\ now = 0 /\ RateInit /\ OptInitAs(FALSE) /\ CacheInit /\ MemoInit
    /\ PlaceIdle /\ SvcIdle

NextMemo ==
    \/ Tick
    \/ MemoClear
    \/ \E t \in Threads : MemoCall(t)
    \/ \E t \in Threads : MemoInvoke(t)
    \/ \E t \in Threads : MemoStore(t)
    \/ \E t \in Threads : MemoFinish(t)

SpecMemo == InitMemo /\ [][NextMemo]_vars

\* C9: once a call with given arguments has been made (and the cache has not
\* been cleared since), no further call with the same arguments made before
\* the TTL has run out invokes the wrapped function, overlapping calls and
\* every returned value included.
C9_MemoizedAlways ==
    [][\A t \in Threads :
        (wpc[t] = "idle" /\ wpc'[t] = "invoke") =>
            ~(callAt[warg'[t]] # -1 /\ now < callAt[warg'[t]] + MemoTtl)
      ]_vars

\* what the wrapper does keep: once it has stored a result other than None
\* for given arguments, a call with the same arguments that starts after that
\* store, before the stored entry's TTL has run out and with the entry not
\* cleared, returns the stored result without invoking the wrapped function.
MemoizedAfterStore ==
    [][\A t \in Threads : \A a \in MemoArgs :
        (/\ wpc[t] = "idle" /\ wpc'[t] # "idle" /\ warg'[t] = a
         /\ memo[a] # NoSet /\ memo[a].value # None
         /\ now < memo[a].at + MemoTtl) =>
            /\ wpc'[t] = "done"
            /\ wret'[t] = memo[a].value
      ]_vars

\* a call has been answered from the entry an earlier call of the same
\* arguments stored
AnsweredFromCache ==
    \E t \in Threads :
        /\ wpc[t] = "done" /\ wval[t] = None /\ wret[t] # None
        /\ memo[warg[t]] # NoSet /\ wret[t] = memo[warg[t]].value

(***************************************************************************)
(* SpecPlace: services/asset_placer.py, AssetPlacer.place_assets.          *)
(*                                                                         *)
(* Lengths are in feet: the code multiplies every length by the same       *)
(* FEET_TO_DEGREES factor, so comparisons between them are the same in     *)
(* either unit.  The property is a rectangle [0,w] x [0,h] wider than      *)
(* twice the boundary buffer, there are no exclusion zones and no terrain  *)
(* data, and constraints.yaml leaves the three distances at the defaults   *)
(* of place_assets.  Distances are compared through their squares.         *)
(***************************************************************************)
MaxReqs == 2
MaxCount == 2

GRID_RESOLUTION == 10
BUFFER_BOUNDARY == 50
MIN_SPACING == 50

\* asset_templates.yaml: the configured types with their dimensions in feet
AssetTypes ==
    [pad |-> [length |-> 20, width |-> 20],
     tank |-> [length |-> 40, width |-> 20]]

AssetNames == {"pad", "tank", "shed"}

\* config_loader.get_asset_type: a type that is not configured gives None
KnownType(name) == name \in DOMAIN AssetTypes

PropertyWidths == {170, 180}
PropertyHeights == {130, 140}

EntryPoints(w, h) == {<<0, 0>>, <<w, h \div 2>>}

Requirements == [type : AssetNames, count : 0..MaxCount]

RequirementLists ==
    UNION {[1..n -> Requirements] : n \in 1..MaxReqs}

Dist2(p, q) ==
    (p[1] - q[1]) * (p[1] - q[1]) + (p[2] - q[2]) * (p[2] - q[2])

MinOf(a, b) == IF a < b THEN a ELSE b

\* the grid walk of generate_candidate_locations: x is the outer loop and y
\* the inner one, both start on the bounds of the buffered boundary, and a
\* point is kept when the buffered boundary contains it (its interior)
GridCount(lo, hi) == ((hi - lo) \div GRID_RESOLUTION) + 1

GridPoint(k, w, h) ==
    LET ny == GridCount(BUFFER_BOUNDARY, h - BUFFER_BOUNDARY)
    IN  <<BUFFER_BOUNDARY + GRID_RESOLUTION * ((k - 1) \div ny),
          BUFFER_BOUNDARY + GRID_RESOLUTION * ((k - 1) % ny)>>

InBufferedBoundary(p, w, h) ==
    /\ BUFFER_BOUNDARY < p[1] /\ p[1] < w - BUFFER_BOUNDARY
    /\ BUFFER_BOUNDARY < p[2] /\ p[2] < h - BUFFER_BOUNDARY

RECURSIVE FilterSeq(_, _, _)
FilterSeq(seq, keep, acc) ==
    IF seq = <<>> THEN acc
    ELSE FilterSeq(Tail(seq), keep,
                   IF Head(seq) \in keep THEN Append(acc, Head(seq)) ELSE acc)

GenerateCandidateLocations(w, h) ==
    LET nx == GridCount(BUFFER_BOUNDARY, w - BUFFER_BOUNDARY)
        ny == GridCount(BUFFER_BOUNDARY, h - BUFFER_BOUNDARY)
        walk == [k \in 1..(nx * ny) |-> GridPoint(k, w, h)]
        inside == {walk[k] : k \in {j \in 1..(nx * ny) :
                                       InBufferedBoundary(walk[j], w, h)}}
    IN  FilterSeq(walk, inside, <<>>)

\* check_constraints, boundary part: the buffered boundary contains the
\* footprint box, which may touch its edge
FootprintInside(p, dims, w, h) ==
    /\ 2 * p[1] - dims.length >= 2 * BUFFER_BOUNDARY
    /\ 2 * p[1] + dims.length <= 2 * (w - BUFFER_BOUNDARY)
    /\ 2 * p[2] - dims.width >= 2 * BUFFER_BOUNDARY
    /\ 2 * p[2] + dims.width <= 2 * (h - BUFFER_BOUNDARY)

\* check_constraints, spacing part: distance < min_spacing is a violation
TooClose(p, q) == Dist2(p, q) < MIN_SPACING * MIN_SPACING

SpacingOk(p, placedAssets) ==
    \A i \in 1..Len(placedAssets) : ~TooClose(p, placedAssets[i].at)

CheckConstraints(p, dims, w, h, placedAssets) ==
    FootprintInside(p, dims, w, h) /\ SpacingOk(p, placedAssets)

\* calculate_location_score without terrain data: every term is constant
\* but the distance to the entry point, capped at the width of the bounds;
\* a higher value is a better score
CalculateLocationScore(p, entry, w) ==
    0 - MinOf(Dist2(p, entry), w * w)

\* list.sort(key=score, reverse=True): highest score first, ties keep the
\* order of the list
RECURSIVE InsertByScore(_, _, _, _)
InsertByScore(sorted, p, entry, w) ==
    IF sorted = <<>> THEN <<p>>
    ELSE IF CalculateLocationScore(Head(sorted), entry, w)
                >= CalculateLocationScore(p, entry, w)
         THEN <<Head(sorted)>> \o InsertByScore(Tail(sorted), p, entry, w)
         ELSE <<p>> \o sorted

RECURSIVE SortByScore(_, _, _, _)
SortByScore(seq, acc, entry, w) ==
    IF seq = <<>> THEN acc
    ELSE SortByScore(Tail(seq), InsertByScore(acc, Head(seq), entry, w),
                     entry, w)

\* the candidates of one requirement: the grid, or the centroid when the
\* grid is empty
CandidatesOf(w, h) ==
    LET grid == GenerateCandidateLocations(w, h)
    IN  IF grid = <<>> THEN <<<<w \div 2, h \div 2>>>> ELSE grid

\* lines 349-369: the candidates that pass check_constraints against the
\* assets placed so far, ranked
ScoredCandidates(req, in, placedAssets) ==
    LET cands == CandidatesOf(in.w, in.h)
        valid == {cands[k] : k \in {j \in 1..Len(cands) :
                     CheckConstraints(cands[j], AssetTypes[req.type],
                                      in.w, in.h, placedAssets)}}
    IN  SortByScore(FilterSeq(cands, valid, <<>>), <<>>, in.entry, in.w)

\* lines 371-387: the first count ranked candidates are appended
GreedySelection(req, ranked) ==
    [k \in 1..MinOf(req.count, Len(ranked)) |->
        [type |-> req.type, at |-> ranked[k], group |-> pl_idx]]

PlaceInit ==
    /\ \E w \in PropertyWidths, h \in PropertyHeights :
         \E e \in EntryPoints(w, h), rs \in RequirementLists :
            pl_in = [w |-> w, h |-> h, entry |-> e, reqs |-> rs]
    /\ pl_idx = 1
    /\ placed = <<>>
    /\ ppc = "run"

\* one iteration of the loop over asset_requirements
PlaceRequirement ==
    /\ ppc = "run"
    /\ pl_idx <= Len(pl_in.reqs)
    /\ LET req == pl_in.reqs[pl_idx]
       IN  placed' =
             IF ~KnownType(req.type) THEN placed
             ELSE placed \o
                  GreedySelection(req, ScoredCandidates(req, pl_in, placed))
    /\ pl_idx' = pl_idx + 1
    /\ UNCHANGED <<pl_in, ppc>>
    /\ UNCHANGED notPlace

\* return placed_assets
PlaceReturn ==
    /\ ppc = "run"
    /\ pl_idx > Len(pl_in.reqs)
    /\ ppc' = "done"
    /\ UNCHANGED <<pl_in, pl_idx, placed>>
    /\ UNCHANGED notPlace

InitPlace ==
    /\ now = 0 /\ RateInit /\ OptInitAs(FALSE) /\ CacheInit /\ MemoInit
    /\ PlaceInit /\ SvcIdle

NextPlace ==
    \/ PlaceRequirement
    \/ PlaceReturn

SpecPlace == InitPlace /\ [][NextPlace]_vars

\* C10: in the list place_assets returns, every two placed assets, of the
\* same requirement group or of different groups, have centers at least the
\* minimum spacing apart.
C10_SpacingBetweenAllPlaced ==
    ppc = "done" /\ pl_in.reqs # <<>> =>
        \A i, j \in 1..Len(placed) :
            i < j => ~TooClose(placed[i].at, placed[j].at)

\* what the code does keep: an asset is at least the minimum spacing from
\* every asset of an earlier requirement group
SpacingAcrossGroups ==
    \A i, j \in 1..Len(placed) :
        placed[i].group < placed[j].group =>
            ~TooClose(placed[i].at, placed[j].at)

TwoGroupsPlaced ==
    /\ ppc = "done"
    /\ \E i, j \in 1..Len(placed) : placed[i].group < placed[j].group

(***************************************************************************)
(* SpecRoad: services/road_generator.py, generate_road_network.            *)
(*                                                                         *)
(* An asset is given by its location.  What a_star_pathfinding returns for *)
(* a location is an input (pathOf): no path, the one-point path [goal] it  *)
(* returns when the entry point is within the goal threshold of the asset, *)
(* or a path of several points.  Paths to different locations differ (they *)
(* end at different goals); paths to the same location are equal.          *)
(***************************************************************************)
MaxAssets == 3

MIN_WIDTH_ACCESS == 20
MIN_WIDTH_SECONDARY == 12

AssetLocations == {1, 2, 3}
PathOutcomes == {"none", "point", "line"}

\* variant: every search is taken to have found a path
PathFoundAlways(in, loc) == TRUE

\* `if path:` : a_star_pathfinding returned a (non-empty) list
PathFound(in, loc) == in.pathOf[loc] # "none"

\* centerline.length of the path to a location
CenterlineLength(loc) == 10 * loc

\* sum(r['length'] for r in road_network)
RECURSIVE SumLengths(_, _)
SumLengths(network, k) ==
    IF k > Len(network) THEN 0
    ELSE network[k].length + SumLengths(network, k + 1)

\* lines 350-371: the dictionary returned, with the warning when no road
\* was built
NetworkResult(network) ==
    IF Len(network) = 0
    THEN [roads |-> <<>>, total_length |-> 0, warning |-> TRUE]
    ELSE [roads |-> network, total_length |-> SumLengths(network, 1),
          warning |-> FALSE]

\* lines 276 and 279: both conditionals test len(road_network) == 0
SegmentType(network) == IF Len(network) = 0 THEN "access" ELSE "secondary"

SegmentWidth(network) ==
    IF Len(network) = 0 THEN MIN_WIDTH_ACCESS ELSE MIN_WIDTH_SECONDARY

\* _optimize_road_network: the first segment of every distinct path is kept
OptimizeRoadNetwork(segments) ==
    LET first(i) == \A j \in 1..(i - 1) : segments[j].path # segments[i].path
        RECURSIVE keep(_, _)
        keep(i, acc) ==
            IF i > Len(segments) THEN acc
            ELSE keep(i + 1, IF first(i) THEN Append(acc, segments[i]) ELSE acc)
    IN  keep(1, <<>>)

RoadInit ==
    /\ \E n \in 1..MaxAssets :
         \E as \in [1..n -> AssetLocations],
            po \in [AssetLocations -> PathOutcomes] :
            rd_in = [assets |-> as, pathOf |-> po]
    /\ rd_idx = 1
    /\ road_segments = <<>>
    /\ road_network = <<>>
    /\ rdpc = "paths"
    /\ rd_ret = [absent |-> TRUE]

\* one iteration of `for asset in assets` (lines 257-282)
RoadFindPath ==
    /\ rdpc = "paths"
    /\ rd_idx <= Len(rd_in.assets)
    /\ LET loc == rd_in.assets[rd_idx]
       IN  road_segments' =
             IF PathFound(rd_in, loc)
             THEN Append(road_segments,
                         [type |-> SegmentType(road_network),
                          path |-> loc,
                          points |-> rd_in.pathOf[loc],
                          asset |-> rd_idx,
                          width |-> SegmentWidth(road_network)])
             ELSE road_segments
    /\ rd_idx' = rd_idx + 1
    /\ UNCHANGED <<rd_in, road_network, rdpc, rd_ret>>
    /\ UNCHANGED notRoad

\* optimized_segments = self._optimize_road_network(road_segments) (line 285)
RoadOptimize ==
    /\ rdpc = "paths"
    /\ rd_idx > Len(rd_in.assets)
    /\ road_segments' = OptimizeRoadNetwork(road_segments)
    /\ rd_idx' = 1
    /\ rdpc' = "build"
    /\ UNCHANGED <<rd_in, road_network, rd_ret>>
    /\ UNCHANGED notRoad

\* one iteration of `for idx, segment in enumerate(optimized_segments)`
\* (lines 289-348): a path of fewer than two points is skipped
RoadBuild ==
    /\ rdpc = "build"
    /\ rd_idx <= Len(road_segments)
    /\ LET segment == road_segments[rd_idx]
       IN  road_network' =
             IF segment.points = "point" THEN road_network
             ELSE Append(road_network,
                         [type |-> segment.type,
                          centerline |-> segment.path,
                          asset |-> segment.asset,
                          width |-> segment.width,
                          length |-> CenterlineLength(segment.path)])
    /\ rd_idx' = rd_idx + 1
    /\ UNCHANGED <<rd_in, road_segments, rdpc, rd_ret>>
    /\ UNCHANGED notRoad

\* lines 350-371: the network is returned, empty or not
RoadReturn ==
    /\ rdpc = "build"
    /\ rd_idx > Len(road_segments)
    /\ rdpc' = "done"
    /\ rd_ret' = NetworkResult(road_network)
    /\ UNCHANGED <<rd_in, rd_idx, road_segments, road_network>>
    /\ UNCHANGED notRoad

InitRoad ==
    /\ now = 0 /\ RateInit /\ OptInitAs(FALSE) /\ CacheInit /\ MemoInit
    /\ PlaceIdle /\ RoadInit /\ RoadAlone

NextRoad ==
    \/ RoadFindPath
    \/ RoadOptimize
    \/ RoadBuild
    \/ RoadReturn

SpecRoad == InitRoad /\ [][NextRoad]_vars

\* C11: in the returned network the road of the first path found is an
\* 'access' road 20 ft wide and every road of a later path is a 'secondary'
\* road 12 ft wide.
C11_FirstAccessRestSecondary ==
    rdpc = "done" =>
        \A i \in 1..Len(road_network) :
            LET firstFound ==
                    \A k \in 1..(road_network[i].asset - 1) :
                        ~PathFound(rd_in, rd_in.assets[k])
            IN  IF firstFound
                THEN /\ road_network[i].type = "access"
                     /\ road_network[i].width = MIN_WIDTH_ACCESS
                ELSE /\ road_network[i].type = "secondary"
                     /\ road_network[i].width = MIN_WIDTH_SECONDARY

\* what the code does: every road of the network is an 'access' road
AllRoadsAccess ==
    \A i \in 1..Len(road_network) :
        /\ road_network[i].type = "access"
        /\ road_network[i].width = MIN_WIDTH_ACCESS

SeveralRoadsBuilt == rdpc = "done" /\ Len(road_network) >= 2

\* the assets whose search found a path of at least two points
ReachedAssets ==
    {k \in 1..Len(rd_in.assets) : rd_in.pathOf[rd_in.assets[k]] = "line"}

\* C25: an asset whose search returns no path adds no segment and the loop
\* goes on to the next asset; the call always returns: every location
\* reached by a path of several points has its road, no unreached location
\* has one; with no road at all the result is roads = [], total_length = 0
\* and the warning, otherwise the roads without warning and total_length
\* the sum of their lengths.
C25_UnreachableAssetsSkipped ==
    /\ [][(rdpc = "paths" /\ rd_idx <= Len(rd_in.assets)
            /\ rd_in.pathOf[rd_in.assets[rd_idx]] = "none") =>
              /\ road_segments' = road_segments
              /\ rd_idx' = rd_idx + 1
              /\ rdpc' = "paths"]_vars
    /\ [](rdpc = "done" /\ rd_in.assets # <<>> =>
            /\ rd_ret # [absent |-> TRUE]
            /\ {road_network[i].centerline : i \in 1..Len(road_network)}
                  = {rd_in.assets[k] : k \in ReachedAssets}
            /\ IF ReachedAssets = {}
               THEN rd_ret = [roads |-> <<>>, total_length |-> 0,
                              warning |-> TRUE]
               ELSE /\ rd_ret.roads = road_network
                    /\ ~rd_ret.warning
                    /\ rd_ret.total_length =
                          SumLengths(rd_ret.roads, 1)
                    /\ rd_ret.total_length > 0)

\* a network was returned whose first two assets were unreachable and whose
\* third has its road
C25_Witness ==
    /\ rdpc = "done"
    /\ Len(rd_in.assets) = 3
    /\ rd_in.pathOf[rd_in.assets[1]] = "none"
    /\ rd_in.pathOf[rd_in.assets[2]] = "none"
    /\ Len(rd_ret.roads) = 1
    /\ rd_ret.total_length = CenterlineLength(rd_in.assets[3])

\* every asset was unreachable and the empty network was returned with its
\* warning
EmptyNetworkReturned ==
    /\ rdpc = "done"
    /\ Len(rd_in.assets) = 3
    /\ rd_ret = [roads |-> <<>>, total_length |-> 0, warning |-> TRUE]

(***************************************************************************)
(* SpecAStar: services/road_generator.py, a_star_pathfinding.              *)
(*                                                                         *)
(* Coordinates are in grid steps (grid_size), on the lattice the search    *)
(* walks from the start.  The boundary is the rectangle [0,w] x [0,h], a   *)
(* point is within it when it is strictly inside.  An exclusion zone is a  *)
(* rectangle [x1, y1, x2, y2] that contains the points strictly inside it. *)
(* No DEM is given, so the terrain factor of the step cost is 1.  Costs    *)
(* and heuristic values are kept in hundredths of a grid step, rounded     *)
(* down; Infinity stands for float('inf').                                 *)
(***************************************************************************)
MaxIterations == 12
MaxSide == 6

Infinity == 1000000
NoScore == -1
NoPoint == <<-1, -1>>

Points == (0..MaxSide) \X (0..MaxSide)

\* grid resolutions in feet: grid_size = resolution * FEET_TO_DEGREES
Resolutions == {10, 20}

\* 0.0001 degrees in tenths of a foot (0.0001 * 364000 ft)
MIN_THRESHOLD_TENTHS == 364

\* goal_threshold = max(grid_size * 2, 0.0001), in tenths of a foot
GoalThresholdTenths(res) ==
    IF 20 * res > MIN_THRESHOLD_TENTHS THEN 20 * res ELSE MIN_THRESHOLD_TENTHS

SquaredDistance(a, b) ==
    (a[1] - b[1]) * (a[1] - b[1]) + (a[2] - b[2]) * (a[2] - b[2])

\* heuristic(current, goal) < goal_threshold
WithinGoalThreshold(a, b, res) ==
    SquaredDistance(a, b) * (10 * res) * (10 * res)
        < GoalThresholdTenths(res) * GoalThresholdTenths(res)

\* np.sqrt of a squared distance, in hundredths of a grid step
SqrtTable ==
    [d \in 0..(2 * MaxSide * MaxSide) |->
        CHOOSE r \in 0..(150 * MaxSide) :
            r * r <= 10000 * d /\ (r + 1) * (r + 1) > 10000 * d]

Heuristic(a, b) == SqrtTable[SquaredDistance(a, b)]

\* property_boundary.contains(Point(p))
InsideBoundary(p, in) ==
    /\ 0 < p[1] /\ p[1] < in.w
    /\ 0 < p[2] /\ p[2] < in.h

\* zone.contains(point) for some zone
InExclusionZone(p, in) ==
    \E z \in in.zones :
        /\ z[1] < p[1] /\ p[1] < z[3]
        /\ z[2] < p[2] /\ p[2] < z[4]

\* cost(current, next_point) without a DEM
Cost(current, next_point, in) ==
    IF InExclusionZone(next_point, in) THEN Infinity
    ELSE Heuristic(current, next_point)

\* float addition, with inf + x = inf
Plus(a, b) == IF a = Infinity \/ b = Infinity THEN Infinity ELSE a + b

\* property_boundary.centroid
Centroid(in) == <<in.w \div 2, in.h \div 2>>

\* lines 151-168: a start or goal that is not within the boundary is
\* replaced by the centroid of the boundary
SnapNever(p, in) == p

Snap(p, in) == IF InsideBoundary(p, in) THEN p ELSE Centroid(in)

\* the eight neighbours of lines 204-209, those within the lattice kept
Neighbors(p) ==
    {q \in Points : q # p /\ q[1] - p[1] \in {-1, 0, 1}
                          /\ q[2] - p[2] \in {-1, 0, 1}}

\* heapq: the least entry, entries compared as (f, (x, y)) tuples
EntryLess(a, b) ==
    \/ a[1] < b[1]
    \/ a[1] = b[1] /\ a[2] < b[2]
    \/ a[1] = b[1] /\ a[2] = b[2] /\ a[3] < b[3]

HeapTop(heap) == CHOOSE e \in heap : \A o \in heap \ {e} : EntryLess(e, o)

\* `while open_set and iterations < max_iterations`
LoopGuardNoCap(heap, n) == heap # {}

LoopGuard(heap, n) == heap # {} /\ n < MaxIterations

\* lines 195-199: path = [goal], then the back-pointers from current, then
\* reversed; the walk is cut after every point has been passed once
RECURSIVE BackPointers(_, _, _)
BackPointers(cf, current, fuel) ==
    IF cf[current] = NoPoint \/ fuel = 0 THEN <<>>
    ELSE BackPointers(cf, cf[current], fuel - 1) \o <<cf[current]>>

ReconstructPath(cf, current, goal) ==
    BackPointers(cf, current, Cardinality(Points)) \o <<goal>>

Sides == {4, MaxSide}

StartPoints == {<<1, 1>>, <<0, 0>>}

GoalPoints(w, h) == {<<w - 1, h - 1>>, <<w - 1, 1>>, <<1, 2>>, <<w, h>>}

\* no zone; a zone across the whole property; the same zone with a gap
\* left at the top; the same zone with a gap left at the bottom
ZoneSets(w, h) ==
    {{}, {<<1, -1, 3, h + 1>>}, {<<1, -1, 3, h - 1>>}, {<<1, 1, 3, h + 1>>}}

AStarInit ==
    /\ \E w \in Sides, h \in Sides, s \in StartPoints, r \in Resolutions :
         \E g \in GoalPoints(w, h), zs \in ZoneSets(w, h) :
            as_in = [w |-> w, h |-> h, start |-> s, goal |-> g,
                     zones |-> zs, res |-> r]
    /\ as_start = <<0, 0>>
    /\ as_goal = <<0, 0>>
    /\ open_set = {}
    /\ came_from = <<>>
    /\ g_score = <<>>
    /\ visited = {}
    /\ iterations = 0
    /\ as_path = <<>>
    /\ apc = "begin"

\* lines 151-180: validation of start and goal, then the initial open set,
\* scores and counters
AStarBegin ==
    /\ apc = "begin"
    /\ LET start == Snap(as_in.start, as_in)
       IN  /\ as_start' = start
           /\ as_goal' = Snap(as_in.goal, as_in)
           /\ open_set' = {<<0, start[1], start[2]>>}
           /\ came_from' = [p \in Points |-> NoPoint]
           /\ g_score' = [p \in Points |-> IF p = start THEN 0 ELSE NoScore]
    /\ visited' = {}
    /\ iterations' = 0
    /\ apc' = "loop"
    /\ UNCHANGED <<as_in, as_path>>
    /\ UNCHANGED notAStar

\* the neighbours whose score the expansion of current sets (lines 211-218)
Improved(current) ==
    {q \in Neighbors(current) :
        /\ InsideBoundary(q, as_in)
        /\ \/ g_score[q] = NoScore
           \/ Plus(g_score[current], Cost(current, q, as_in)) < g_score[q]}

\* one iteration of the main loop (lines 183-222)
AStarIterate ==
    /\ apc = "loop"
    /\ LoopGuard(open_set, iterations)
    /\ iterations' = iterations + 1
    /\ LET top == HeapTop(open_set)
           current == <<top[2], top[3]>>
           rest == open_set \ {top}
           tentative(q) == Plus(g_score[current], Cost(current, q, as_in))
       IN  IF current \in visited
           THEN /\ open_set' = rest
                /\ UNCHANGED <<came_from, g_score, visited, as_path, apc>>
           ELSE /\ visited' = visited \cup {current}
                /\ IF WithinGoalThreshold(current, as_goal, as_in.res)
                   THEN /\ as_path' =
                             ReconstructPath(came_from, current, as_goal)
                        /\ apc' = "found"
                        /\ open_set' = rest
                        /\ UNCHANGED <<came_from, g_score>>
                   ELSE /\ came_from' =
                             [q \in Points |->
                                 IF q \in Improved(current) THEN current
                                 ELSE came_from[q]]
                        /\ g_score' =
                             [q \in Points |->
                                 IF q \in Improved(current) THEN tentative(q)
                                 ELSE g_score[q]]
                        /\ open_set' = rest \cup
                             {<<Plus(tentative(q), Heuristic(q, as_goal)),
                                q[1], q[2]>> : q \in Improved(current)}
                        /\ UNCHANGED <<as_path, apc>>
    /\ UNCHANGED <<as_in, as_start, as_goal>>
    /\ UNCHANGED notAStar

\* lines 224-225: the loop has ended without a path, None is returned
AStarNoPath ==
    /\ apc = "loop"
    /\ ~LoopGuard(open_set, iterations)
    /\ apc' = "none"
    /\ UNCHANGED <<as_in, as_start, as_goal, open_set, came_from, g_score,
                   visited, iterations, as_path>>
    /\ UNCHANGED notAStar

InitAStar ==
    /\ now = 0 /\ RateInit /\ OptInitAs(FALSE) /\ CacheInit /\ MemoInit
    /\ PlaceIdle /\ AStarInit /\ AStarAlone

NextAStar ==
    \/ AStarBegin
    \/ AStarIterate
    \/ AStarNoPath

SpecAStar == InitAStar /\ [][NextAStar]_vars

\* the call runs to its end: a step that can be taken is taken
SpecAStarRun == SpecAStar /\ WF_vars(NextAStar)

\* the grid points of a returned path that a step of the search reached:
\* all but the start it begins with and the goal appended at its end
SteppedPoints(path) == {path[i] : i \in 2..(Len(path) - 1)}

\* C12: a returned path contains no grid point reached by a step into an
\* exclusion zone; where every route has to cross a zone no path is returned.
C12_ZonesImpassable ==
    apc = "found" =>
        \A p \in SteppedPoints(as_path) : ~InExclusionZone(p, as_in)

\* what the code does keep: a popped point whose score is finite was reached
\* through points outside every exclusion zone
RECURSIVE CleanChain(_, _)
CleanChain(p, fuel) ==
    \/ came_from[p] = NoPoint
    \/ /\ fuel > 0
       /\ ~InExclusionZone(p, as_in)
       /\ CleanChain(came_from[p], fuel - 1)

FiniteScoresAvoidZones ==
    apc \in {"loop", "found", "none"} =>
        \A p \in visited :
            g_score[p] < Infinity => CleanChain(p, Cardinality(Points))

\* C13: a returned path lies within the boundary, begins within the goal
\* threshold of the validated start, ends at the validated goal, and its
\* points other than the last are 8-connected neighbours; a start or goal
\* that is not within the boundary has been replaced by the centroid.
C13_PathInsideStartToGoal ==
    apc = "found" =>
        /\ Len(as_path) >= 1
        /\ \A i \in 1..Len(as_path) : InsideBoundary(as_path[i], as_in)
        /\ WithinGoalThreshold(as_path[1], as_start, as_in.res)
        /\ as_path[Len(as_path)] = as_goal
        /\ \A i \in 1..(Len(as_path) - 2) :
               as_path[i + 1] \in Neighbors(as_path[i])
        /\ InsideBoundary(as_in.start, as_in) => as_start = as_in.start
        /\ InsideBoundary(as_in.goal, as_in) => as_goal = as_in.goal
        /\ ~InsideBoundary(as_in.start, as_in) => as_start = Centroid(as_in)
        /\ ~InsideBoundary(as_in.goal, as_in) =>
               /\ as_goal = Centroid(as_in)
               /\ as_path[Len(as_path)] # as_in.goal

\* C13 witness: a path of several steps has been returned for a start that
\* was not within the boundary.
C13_Witness ==
    /\ apc = "found"
    /\ Len(as_path) >= 3
    /\ ~InsideBoundary(as_in.start, as_in)
    /\ as_path[1] = Centroid(as_in)

\* the back-pointers from p end at the start without passing a point twice
RECURSIVE EndsAtStart(_, _)
EndsAtStart(p, fuel) ==
    IF came_from[p] = NoPoint THEN p = as_start
    ELSE fuel > 0 /\ EndsAtStart(came_from[p], fuel - 1)

BackPointersAcyclic ==
    \A p \in Points :
        g_score[p] # NoScore => EndsAtStart(p, Cardinality(Points) - 1)

\* C14: the main loop makes at most max_iterations iterations, the
\* back-pointers contain no cycle and end at the start, and the call ends
\* by returning a path or the 'no path' value.
C14_Terminates ==
    /\ [](apc \in {"loop", "found", "none"} =>
             iterations <= MaxIterations /\ BackPointersAcyclic)
    /\ <>(apc \in {"found", "none"})

\* C14 witness: the loop has been ended by the iteration cap with entries
\* left in the open set, and the 'no path' value returned.
C14_Witness ==
    /\ apc = "none"
    /\ iterations = MaxIterations
    /\ open_set # {}

(***************************************************************************)
(* SpecUpload: handlers/upload.py, upload_file, and                        *)
(* services/geospatial_processor.py, process_upload.                       *)
(*                                                                         *)
(* What the file name, the transfer of the bytes, the validators and the   *)
(* parser answer for an upload is an input.                                *)
(***************************************************************************)
MaxProperties == 2

FileNames == {"ok", "empty", "badext"}
Outcomes == {"ok", "fail"}

\* the geometry of a property: valid, invalid, or present but empty
GeometryKinds == {"valid", "invalid", "empty"}

\* validate_geometry is called for `if geom:` and its answer is `not is_valid`
GeometryRejectedNever(g) == FALSE

GeometryRejected(g) == g = "invalid"

UploadInit ==
    /\ \E n \in FileNames, c \in Outcomes, f \in Outcomes, p \in Outcomes,
          d \in Outcomes, b \in BOOLEAN :
         \E k \in 1..MaxProperties :
            \E gs \in [1..k -> GeometryKinds] :
               up_in = [name |-> n, copy |-> c, file |-> f, parse |-> p,
                        data |-> d, geoms |-> gs, bucket |-> b]
    /\ upc = "start"
    /\ up_idx = 1
    /\ tmp_exists = FALSE
    /\ up_status = 0
    /\ up_log = <<>>

\* upload.py 35-46: a missing name or an unsupported extension is a 400
UploadCheckName ==
    /\ upc = "start"
    /\ IF up_in.name = "ok"
       THEN upc' = "create" /\ UNCHANGED up_status
       ELSE upc' = "done" /\ up_status' = 400
    /\ UNCHANGED <<up_in, up_idx, tmp_exists, up_log>>
    /\ UNCHANGED notUpload

\* upload.py 49: NamedTemporaryFile(delete=False) creates the file
UploadCreateTemp ==
    /\ upc = "create"
    /\ tmp_exists' = TRUE
    /\ upc' = "copy"
    /\ UNCHANGED <<up_in, up_idx, up_status, up_log>>
    /\ UNCHANGED notUpload

\* upload.py 50-52: the bytes are read and written inside the `with` block,
\* which closes the file and, with delete=False, leaves it on disk; an
\* exception here is outside the try statement and leaves the handler
UploadCopy ==
    /\ upc = "copy"
    /\ IF up_in.copy = "ok"
       THEN upc' = "validate_file" /\ UNCHANGED up_status
       ELSE upc' = "done" /\ up_status' = 500
    /\ UNCHANGED <<up_in, up_idx, tmp_exists, up_log>>
    /\ UNCHANGED notUpload

\* geospatial_processor.py 35-38: validate_file_upload
UploadValidateFile ==
    /\ upc = "validate_file"
    /\ up_log' = Append(up_log, "validate_file")
    /\ upc' = IF up_in.file = "ok" THEN "parse" ELSE "except"
    /\ UNCHANGED <<up_in, up_idx, tmp_exists, up_status>>
    /\ UNCHANGED notUpload

\* geospatial_processor.py 41: parse_file, which may raise
UploadParse ==
    /\ upc = "parse"
    /\ up_log' = Append(up_log, "parse")
    /\ upc' = IF up_in.parse = "ok" THEN "validate_data" ELSE "except"
    /\ UNCHANGED <<up_in, up_idx, tmp_exists, up_status>>
    /\ UNCHANGED notUpload

\* geospatial_processor.py 44-46: validate_property_data
UploadValidateData ==
    /\ upc = "validate_data"
    /\ up_log' = Append(up_log, "validate_data")
    /\ upc' = IF up_in.data = "ok" THEN "geometries" ELSE "except"
    /\ UNCHANGED <<up_in, up_idx, tmp_exists, up_status>>
    /\ UNCHANGED notUpload

\* geospatial_processor.py 49-54: one iteration of the loop over properties
UploadValidateGeometry ==
    /\ upc = "geometries"
    /\ up_idx <= Len(up_in.geoms)
    /\ LET geom == up_in.geoms[up_idx]
       IN  IF geom = "empty"
           THEN UNCHANGED <<upc, up_log>>
           ELSE /\ up_log' = Append(up_log, "validate_geometry")
                /\ upc' = IF GeometryRejected(geom) THEN "except"
                          ELSE "geometries"
    /\ up_idx' = up_idx + 1
    /\ UNCHANGED <<up_in, tmp_exists, up_status>>
    /\ UNCHANGED notUpload

\* geospatial_processor.py 57-59: the file is written to the bucket when a
\* bucket is configured, and the result is returned
UploadStore ==
    /\ upc = "geometries"
    /\ up_idx > Len(up_in.geoms)
    /\ up_log' = IF up_in.bucket THEN Append(up_log, "store") ELSE up_log
    /\ upc' = "respond"
    /\ UNCHANGED <<up_in, up_idx, tmp_exists, up_status>>
    /\ UNCHANGED notUpload

\* upload.py 63-71 and 76-79: the response, then the finally clause
UploadRespond ==
    /\ upc = "respond"
    /\ up_status' = 200
    /\ tmp_exists' = FALSE
    /\ upc' = "done"
    /\ UNCHANGED <<up_in, up_idx, up_log>>
    /\ UNCHANGED notUpload

\* upload.py 73-79: the exception becomes a 500, then the finally clause
UploadExcept ==
    /\ upc = "except"
    /\ up_status' = 500
    /\ tmp_exists' = FALSE
    /\ upc' = "done"
    /\ UNCHANGED <<up_in, up_idx, up_log>>
    /\ UNCHANGED notUpload

InitUpload ==
    /\ now = 0 /\ RateInit /\ OptInitAs(FALSE) /\ CacheInit /\ MemoInit
    /\ PlaceIdle /\ UploadInit /\ UploadAlone

NextUpload ==
    \/ UploadCheckName
    \/ UploadCreateTemp
    \/ UploadCopy
    \/ UploadValidateFile
    \/ UploadParse
    \/ UploadValidateData
    \/ UploadValidateGeometry
    \/ UploadStore
    \/ UploadRespond
    \/ UploadExcept

SpecUpload == InitUpload /\ [][NextUpload]_vars

StorageWrites == Cardinality({i \in 1..Len(up_log) : up_log[i] = "store"})

\* C15: the storage write is made at most once and only after the file
\* validation, the parsing, the structure validation and the validation of
\* every property geometry have succeeded; a call that raises has made no
\* storage write.
C15_StoreAfterAllValidation ==
    /\ StorageWrites <= 1
    /\ upc = "except" => StorageWrites = 0
    /\ StorageWrites = 1 =>
          /\ up_in.file = "ok" /\ up_in.parse = "ok" /\ up_in.data = "ok"
          /\ \A i \in 1..Len(up_in.geoms) : up_in.geoms[i] # "invalid"
          /\ up_log[Len(up_log)] = "store"
          /\ SubSeq(up_log, 1, 3) = <<"validate_file", "parse", "validate_data">>
          /\ Len(up_log) =
                4 + Cardinality({i \in 1..Len(up_in.geoms) :
                                    up_in.geoms[i] = "valid"})

\* C15 witness: a file with two valid geometries has been stored.
C15_Witness ==
    /\ upc = "done" /\ up_status = 200
    /\ StorageWrites = 1
    /\ Len(up_in.geoms) = 2
    /\ \A i \in 1..2 : up_in.geoms[i] = "valid"

\* C16: once the handler has created its temporary file, no exit path
\* leaves the file behind.
C16_TempFileAlwaysRemoved ==
    upc = "done" => ~tmp_exists

\* what the code does keep: the file is removed after a response built from
\* process_upload, successful or failed
TempFileRemovedAfterProcessing ==
    upc = "done" /\ up_log # <<>> => ~tmp_exists

(***************************************************************************)
(* SpecExport: handlers/export.py, export_layout with _export_pdf,         *)
(* _export_kmz and _export_geojson.                                        *)
(*                                                                         *)
(* A request is given by what its layout data holds, its format, and       *)
(* whether rendering the file raises.                                      *)
(***************************************************************************)
MaxExports == 2

\* layout_data: absent, or the sets of non-empty lists among properties,
\* assets and roads
LayoutKinds ==
    {[given |-> FALSE, lists |-> {}]} \cup
    {[given |-> TRUE, lists |-> s] :
        s \in SUBSET {"properties", "assets", "roads"}}

ExportFormats == {"pdf", "kmz", "geojson", "shp"}

\* the formats whose renderer makes a NamedTemporaryFile(delete=False)
FileFormats == {"pdf", "kmz"}

\* lines 55-73: the request is rejected with 400
LayoutRejected(layout) == ~layout.given \/ layout.lists = {}

\* a request arrives
ExportArrive ==
    /\ xpc = "idle"
    /\ ex_count < MaxExports
    /\ ex_count' = ex_count + 1
    /\ \E l \in LayoutKinds, f \in ExportFormats, r \in Outcomes :
          ex_req' = [layout |-> l, format |-> f, render |-> r]
    /\ ex_status' = 0
    /\ xpc' = "validate"
    /\ UNCHANGED ex_tmp
    /\ UNCHANGED notExport

\* lines 55-84: validation of the layout data and dispatch on the format
ExportValidate ==
    /\ xpc = "validate"
    /\ IF LayoutRejected(ex_req.layout) \/ ex_req.format = "shp"
       THEN xpc' = "done" /\ ex_status' = 400
       ELSE /\ xpc' = IF ex_req.format \in FileFormats THEN "tempfile"
                      ELSE "geojson"
            /\ UNCHANGED ex_status
    /\ UNCHANGED <<ex_req, ex_tmp, ex_count>>
    /\ UNCHANGED notExport

\* lines 103-104 and 234-235: the temporary file is created and closed
ExportCreateTemp ==
    /\ xpc = "tempfile"
    /\ ex_tmp' = [ex_tmp EXCEPT ![ex_req.format] = @ + 1]
    /\ xpc' = "render"
    /\ UNCHANGED <<ex_req, ex_status, ex_count>>
    /\ UNCHANGED notExport

\* lines 106-217 and 237-347: the file is rendered and returned as a
\* FileResponse; an exception is reported as 500 by export_layout (86-98)
ExportRender ==
    /\ xpc = "render"
    /\ ex_status' = IF ex_req.render = "ok" THEN 200 ELSE 500
    /\ xpc' = "done"
    /\ UNCHANGED <<ex_req, ex_tmp, ex_count>>
    /\ UNCHANGED notExport

\* _export_geojson: a JSON response, no file
ExportGeoJson ==
    /\ xpc = "geojson"
    /\ ex_status' = IF ex_req.render = "ok" THEN 200 ELSE 500
    /\ xpc' = "done"
    /\ UNCHANGED <<ex_req, ex_tmp, ex_count>>
    /\ UNCHANGED notExport

\* the response has been sent
ExportFinish ==
    /\ xpc = "done"
    /\ xpc' = "idle"
    /\ UNCHANGED <<ex_req, ex_tmp, ex_status, ex_count>>
    /\ UNCHANGED notExport

InitExport ==
    /\ now = 0 /\ RateInit /\ OptInitAs(FALSE) /\ CacheInit /\ MemoInit
    /\ PlaceIdle /\ ExportIdle /\ ExportAlone

NextExport ==
    \/ ExportArrive
    \/ ExportValidate
    \/ ExportCreateTemp
    \/ ExportRender
    \/ ExportGeoJson
    \/ ExportFinish

SpecExport == InitExport /\ [][NextExport]_vars

\* C17: once an export request has been answered, with the file or with a
\* 500, no temporary file made for it is left.
C17_ExportTempFilesRemoved ==
    xpc = "idle" => \A s \in FileFormats : ex_tmp[s] = 0

\* what the code does: a temporary file, once made, is never removed
ExportTempFilesKept ==
    [][\A s \in FileFormats : ex_tmp'[s] >= ex_tmp[s]]_vars

(***************************************************************************)
(* SpecGis: handlers/gis_integration.py, the in-memory layout registry     *)
(* with register_layout, sync_layout_to_gis and export_shapefile.          *)
(***************************************************************************)
MaxGisCalls == 4

LayoutIds == {1, 2, 3}

\* `layout_id not in _layouts_store` is false
LayoutKnownAlways(id, store) == TRUE

LayoutKnown(id, store) == id \in store

\* register_layout(layout_id, layout_data)
GisRegister(id) ==
    /\ gis_count < MaxGisCalls
    /\ gis_count' = gis_count + 1
    /\ layouts_store' = layouts_store \cup {id}
    /\ gis_resp' = [op |-> "register", id |-> id,
                    known |-> id \in layouts_store, status |-> 0]
    /\ UNCHANGED notGis

\* POST /gis/layouts/{id}/sync: 404 for an unknown id, else success
GisSync(id) ==
    /\ gis_count < MaxGisCalls
    /\ gis_count' = gis_count + 1
    /\ gis_resp' = [op |-> "sync", id |-> id,
                    known |-> id \in layouts_store,
                    status |-> IF LayoutKnown(id, layouts_store) THEN 200
                               ELSE 404]
    /\ UNCHANGED layouts_store
    /\ UNCHANGED notGis

\* GET /gis/layouts/{id}/shapefile: 404 for an unknown id, else 501
GisShapefile(id) ==
    /\ gis_count < MaxGisCalls
    /\ gis_count' = gis_count + 1
    /\ gis_resp' = [op |-> "shapefile", id |-> id,
                    known |-> id \in layouts_store,
                    status |-> IF LayoutKnown(id, layouts_store) THEN 501
                               ELSE 404]
    /\ UNCHANGED layouts_store
    /\ UNCHANGED notGis

InitGis ==
    /\ now = 0 /\ RateInit /\ OptInitAs(FALSE) /\ CacheInit /\ MemoInit
    /\ PlaceIdle /\ GisInit /\ GisAlone

NextGis ==
    \/ \E id \in LayoutIds : GisRegister(id)
    \/ \E id \in LayoutIds : GisSync(id)
    \/ \E id \in LayoutIds : GisShapefile(id)

SpecGis == InitGis /\ [][NextGis]_vars

MaxAiCalls == 3
\* ttl=3600 of the set_cached call, in the scale of the clock of the model
AiTtl == 60

\* the structures _call_openai can return, as cache values
Parsed == 1      \* json.loads(content), a structure
Wrapped == 2     \* {'reasoning': content, 'recommendations': [], ...}
Fallback == 3    \* _fallback_analysis()

Prompts == {1, 2}

\* what the single client.post of a call comes to:
\*   "transport" the request raises, "status" raise_for_status raises,
\*   "malformed" the body is not JSON or lacks choices[0].message.content,
\*   "json" the content parses to a structure, "null" it parses to None,
\*   "text" the content is not JSON
PostOutcomes == {"transport", "status", "malformed", "json", "null", "text"}

\* generate_cache_key("ai_optimizer", prompt): one key per prompt
AiCacheKey(p) == IF p = 1 THEN <<"a">> ELSE <<"a", "b">>

\* the try block reaches set_cached without raising
AiSucceeded(o) == o \in {"json", "null", "text"}

\* parsed_result
AiParsedResult(o) ==
    IF o = "json" THEN Parsed ELSE IF o = "null" THEN None ELSE Wrapped

\* variant: the result is stored whatever the request came to
AiStoresAlways(o) == TRUE

\* set_cached is reached only at the end of the try block
AiStores(o) == AiSucceeded(o)

\* what the call returns after its request
AiResult(o) == IF AiSucceeded(o) THEN AiParsedResult(o) ELSE Fallback

AiInit(key) == AiIdleWith(key)

\* _call_openai up to the remote request: the key test, get_cached and the
\* return of a cached structure
AiCall(p) ==
    /\ aipc = "idle"
    /\ ai_calls < MaxAiCalls
    /\ ai_calls' = ai_calls + 1
    /\ ai_prompt' = p
    /\ ai_posts' = 0
    /\ ai_outcome' = "none"
    /\ IF ~ai_key
       THEN /\ ai_ret' = Fallback
            /\ aipc' = "done"
            /\ cache' = cache
       ELSE /\ cache' = GetCachedStore(cache, AiCacheKey(p), now)
            /\ IF GetCachedValue(cache, AiCacheKey(p), now) # None
               THEN /\ ai_ret' = GetCachedValue(cache, AiCacheKey(p), now)
                    /\ aipc' = "done"
               ELSE /\ ai_ret' = None
                    /\ aipc' = "post"
    /\ UNCHANGED <<now, ai_key, clast, nsets, lastSet, clearedSince, notAi>>

\* the try block: one client.post, then set_cached and the result, or the
\* fallback of the except clause
AiPost(o) ==
    /\ aipc = "post"
    /\ ai_posts' = ai_posts + 1
    /\ ai_outcome' = o
    /\ ai_ret' = AiResult(o)
    /\ cache' = IF AiStores(o)
                THEN SetCachedStore(cache, AiCacheKey(ai_prompt),
                                    AiResult(o), AiTtl, now)
                ELSE cache
    /\ aipc' = "done"
    /\ UNCHANGED <<now, ai_key, ai_prompt, ai_calls,
                   clast, nsets, lastSet, clearedSince, notAi>>

\* the caller has the value
AiReturn ==
    /\ aipc = "done"
    /\ aipc' = "idle"
    /\ ai_prompt' = 0
    /\ ai_outcome' = "none"
    /\ ai_ret' = None
    /\ ai_posts' = 0
    /\ UNCHANGED <<now, ai_key, ai_calls, cacheVars, notAi>>

InitAi ==
    /\ now = 0 /\ RateInit /\ OptInitAs(FALSE) /\ CacheInit /\ MemoInit
    /\ PlaceIdle /\ AiAlone
    /\ \E key \in BOOLEAN : AiInit(key)

NextAi ==
    \/ Tick
    \/ \E p \in Prompts : AiCall(p)
    \/ \E o \in PostOutcomes : AiPost(o)
    \/ AiReturn

SpecAi == InitAi /\ [][NextAi]_vars

\* a step of _call_openai that begins a call
AiCallStep == aipc = "idle" /\ aipc' # "idle"
\* a step of _call_openai that ends the try block
AiPostStep == aipc = "post" /\ aipc' = "done"

\* C19: a call without an API key makes no remote request, leaves the cache
\* as it is and returns the fallback payload; with a key, a cached structure
\* for the prompt is returned without a remote request; on a miss exactly one
\* remote request is made and a call never makes a second one; a transport,
\* status or body failure returns the fallback payload and stores nothing; a
\* successful response stores what was parsed or wrapped from it for AiTtl;
\* the fallback payload is never in the cache.
C19_AiCallNeverFailsNeverRetries ==
    /\ [](/\ ai_posts <= 1
          /\ \A k \in CacheKeys :
                cache[k] # NoCacheEntry => cache[k].value # Fallback)
    /\ [][/\ (AiCallStep /\ ~ai_key) =>
                /\ aipc' = "done" /\ ai_posts' = 0
                /\ ai_ret' = Fallback /\ cache' = cache
          /\ (AiCallStep /\ ai_key
                /\ GetCachedValue(cache, AiCacheKey(ai_prompt'), now) # None) =>
                /\ aipc' = "done" /\ ai_posts' = 0
                /\ ai_ret' = cache[AiCacheKey(ai_prompt')].value
          /\ (AiCallStep /\ ai_key
                /\ GetCachedValue(cache, AiCacheKey(ai_prompt'), now) = None) =>
                /\ aipc' = "post" /\ ai_posts' = 0
          /\ AiPostStep =>
                /\ ai_posts' = 1
                /\ ai_outcome' \in {"transport", "status", "malformed"} =>
                      ai_ret' = Fallback /\ cache' = cache
                /\ ai_outcome' \in {"json", "null", "text"} =>
                      /\ ai_ret' \in {Parsed, None, Wrapped}
                      /\ cache' = [cache EXCEPT ![AiCacheKey(ai_prompt)] =
                            [value |-> ai_ret', expires_at |-> now + AiTtl,
                             created_at |-> now]]
          /\ (aipc = "done" /\ aipc' = "idle") => cache' = cache
         ]_vars

\* a call with a key has been answered from the cache, after an earlier call
\* for the same prompt failed and a later one stored a structure
C19_Witness ==
    /\ ai_key /\ aipc = "done" /\ ai_posts = 0 /\ ai_calls = 3
    /\ ai_ret \in {Parsed, Wrapped}
    /\ cache[AiCacheKey(ai_prompt)] # NoCacheEntry

\* a call with a key has returned the fallback payload after its one failed
\* request
AiFellBack ==
    /\ ai_key /\ aipc = "done" /\ ai_posts = 1 /\ ai_ret = Fallback
    /\ ai_outcome \in {"transport", "status"}

(***************************************************************************)
(* SpecReg: services/regulatory_fetcher.py, fetch_all_regulatory_data and  *)
(* the three fetches it calls                                              *)
(***************************************************************************)

MaxRegCalls == 2
\* CACHE_TTL_REGULATORY (86400 s), in the scale of the clock of the model
RegTtl == 60

RegBounds == {1, 2}

\* what the single client.get of a fetch comes to: "transport" the request
\* raises, "status" raise_for_status raises, "body" response.json() or
\* data.get raises, "data" the response is read
SourceOutcomes == {"transport", "status", "body", "data"}

\* generate_cache_key("regulatory_data", bounds, property_location)
RegCacheKey(b) == IF b = 1 THEN <<"b", "a">> ELSE <<"a", "b">>

\* variant: the except clause returns the empty entry without the error
SourceEntryNoError(s, o) ==
    [source |-> s, data |-> o = "data", error |-> FALSE]

\* the dictionary a fetch returns: the data of the response, or from the
\* except clause the empty value with 'error': str(e)
SourceEntry(s, o) ==
    [source |-> s, data |-> o = "data", error |-> o # "data"]

\* the combined result as a cache value: 1 plus one bit per source whose
\* entry carries an error
RECURSIVE ErrorBits(_, _)
ErrorBits(entries, i) ==
    IF i = 0 THEN 0
    ELSE 2 * ErrorBits(entries, i - 1)
         + (IF entries[Sources[i]].error THEN 1 ELSE 0)

\* variant: the stored result carries no error annotation
RegResultNoErrors(entries) == 1

RegResult(entries) == 1 + ErrorBits(entries, Len(Sources))

RegInit == RegIdle

\* fetch_all_regulatory_data up to the first fetch: get_cached and the
\* return of a cached result
RegCall(b) ==
    /\ reg_pc = "idle"
    /\ reg_calls < MaxRegCalls
    /\ reg_calls' = reg_calls + 1
    /\ reg_bounds' = b
    /\ cache' = GetCachedStore(cache, RegCacheKey(b), now)
    /\ IF GetCachedValue(cache, RegCacheKey(b), now) # None
       THEN /\ reg_ret' = GetCachedValue(cache, RegCacheKey(b), now)
            /\ reg_pc' = "done"
       ELSE /\ reg_ret' = None
            /\ reg_pc' = "flood_zones"
    /\ UNCHANGED <<now, reg_out, reg_entries, reg_queries,
                   clast, nsets, lastSet, clearedSince, notReg>>

\* one fetch: a single client.get inside try / except Exception
FetchSource(s, o, next) ==
    /\ reg_pc = s
    /\ reg_queries' = [reg_queries EXCEPT ![s] = @ + 1]
    /\ reg_out' = [reg_out EXCEPT ![s] = o]
    /\ reg_entries' = [reg_entries EXCEPT ![s] = SourceEntry(s, o)]
    /\ reg_pc' = next
    /\ UNCHANGED <<now, reg_bounds, reg_ret, reg_calls, cacheVars, notReg>>

FetchFloodZones(o) == FetchSource("flood_zones", o, "wetlands")
FetchWetlands(o) == FetchSource("wetlands", o, "topographic")
FetchTopographicData(o) == FetchSource("topographic", o, "store")

\* the result is built, stored and returned
RegStore ==
    /\ reg_pc = "store"
    /\ reg_ret' = RegResult(reg_entries)
    /\ cache' = SetCachedStore(cache, RegCacheKey(reg_bounds),
                               RegResult(reg_entries), RegTtl, now)
    /\ reg_pc' = "done"
    /\ UNCHANGED <<now, reg_bounds, reg_out, reg_entries, reg_queries,
                   reg_calls, clast, nsets, lastSet, clearedSince, notReg>>

\* the caller has the value
RegReturn ==
    /\ reg_pc = "done"
    /\ reg_pc' = "idle"
    /\ reg_bounds' = 0
    /\ reg_out' = [s \in SourceNames |-> "none"]
    /\ reg_entries' = [s \in SourceNames |-> NoSourceEntry]
    /\ reg_queries' = [s \in SourceNames |-> 0]
    /\ reg_ret' = None
    /\ UNCHANGED <<now, reg_calls, cacheVars, notReg>>

InitReg ==
    /\ now = 0 /\ RateInit /\ OptInitAs(FALSE) /\ CacheInit /\ MemoInit
    /\ PlaceIdle /\ RegInit /\ RegAlone

NextReg ==
    \/ Tick
    \/ \E b \in RegBounds : RegCall(b)
    \/ \E o \in SourceOutcomes : FetchFloodZones(o)
    \/ \E o \in SourceOutcomes : FetchWetlands(o)
    \/ \E o \in SourceOutcomes : FetchTopographicData(o)
    \/ RegStore
    \/ RegReturn

SpecReg == InitReg /\ [][NextReg]_vars

\* the call under way missed the cache and has returned
RegMissReturned ==
    reg_pc = "done" /\ \E s \in SourceNames : reg_queries[s] > 0

\* C20: on a cache miss every source is queried, and exactly once, whatever
\* the others came to; a source whose request failed has the empty entry
\* with an error, one that answered has its data and no error; a fetch
\* always hands over to the next one; the call ends by returning a result
\* that holds the three entries, and never any other way.
C20_AllSourcesQueriedOnce ==
    /\ [](/\ reg_pc \in {"idle", "flood_zones", "wetlands", "topographic",
                         "store", "done"}
          /\ \A s \in SourceNames : reg_queries[s] <= 1
          /\ RegMissReturned =>
                /\ \A s \in SourceNames :
                      /\ reg_queries[s] = 1
                      /\ reg_entries[s] # NoSourceEntry
                      /\ reg_entries[s].source = s
                      /\ reg_entries[s].error = (reg_out[s] # "data")
                      /\ reg_entries[s].data = (reg_out[s] = "data")
                /\ reg_ret = RegResult(reg_entries))
    /\ [][/\ (reg_pc = "idle" /\ reg_pc' # "idle"
                /\ GetCachedValue(cache, RegCacheKey(reg_bounds'), now) = None)
             => reg_pc' = "flood_zones"
          /\ (reg_pc = "flood_zones" /\ reg_pc' # reg_pc)
             => reg_pc' = "wetlands" /\ reg_queries'["flood_zones"] = 1
          /\ (reg_pc = "wetlands" /\ reg_pc' # reg_pc)
             => reg_pc' = "topographic" /\ reg_queries'["wetlands"] = 1
          /\ (reg_pc = "topographic" /\ reg_pc' # reg_pc)
             => reg_pc' = "store" /\ reg_queries'["topographic"] = 1
          /\ (reg_pc = "store" /\ reg_pc' # reg_pc) => reg_pc' = "done"
         ]_vars

\* a call has returned its result after the first two sources failed and the
\* third answered
C20_Witness ==
    /\ RegMissReturned
    /\ reg_out["flood_zones"] = "transport"
    /\ reg_out["wetlands"] = "status"
    /\ reg_out["topographic"] = "data"
    /\ reg_ret = RegResult(reg_entries)

(***************************************************************************)
(* SpecCutFill: services/cutfill_calculator.py, calculate_volumes and      *)
(* _create_proposed_dem                                                    *)
(***************************************************************************)

\* columns of the grid (dem.shape[1]); the grid has one row
MaxCols == 2

Cells == {0} \X (0..(MaxCols - 1))
Elevations == {0, 90, 100}
CfResolutions == {10, 20}

\* a value of proposed_grades.get(..., None)
NoElevation == [given |-> FALSE, value |-> 0]
GivenElevation(v) == [given |-> TRUE, value |-> v]
OptionalElevations == {NoElevation} \cup {GivenElevation(v) : v \in {0, 90}}

\* `if default_elevation:`, `if pad_elevation:`: a number is true when it is
\* given and not 0
ElevationTruthy(e) == e.given /\ e.value # 0

Zeros == [c \in Cells |-> 0]
Grids == [Cells -> Elevations]

\* the cell a point falls in, int((y - miny) / grid_res_deg) and the same for
\* x, is the input; it may lie outside the grid
PointCells == {0} \X (0..MaxCols)

\* the assets of proposed_grades: none, or one with its pad
AssetLists ==
    {<<>>} \cup
    {<<[cell |-> c, pad_elevation |-> e, pad_size |-> 5]>> :
        c \in {<<0, 0>>}, e \in {GivenElevation(0), GivenElevation(100)}}

\* the roads of proposed_grades: none, or one of two vertices
RoadLists ==
    {<<>>} \cup
    {<<[centerline |-> <<<<0, 0>>, <<0, MaxCols>>>>,
        elevations |-> es, width |-> w]>> :
        es \in {<<>>, <<100>>}, w \in {10, 20}}

\* property_boundary: None, or the cells whose point the polygon contains
NoBoundary == [given |-> FALSE, inside |-> {}]
Boundaries ==
    {NoBoundary} \cup
    {[given |-> TRUE, inside |-> s] : s \in {Cells, {<<0, 0>>}, {}}}

CfAbs(x) == IF x < 0 THEN -x ELSE x

\* the loops over di, dj: every cell of the grid within radius of (i, j)
Stamp(grid, cell, radius, elevation) ==
    [c \in Cells |->
        IF CfAbs(c[1] - cell[1]) <= radius /\ CfAbs(c[2] - cell[2]) <= radius
        THEN elevation ELSE grid[c]]

\* the grid _create_proposed_dem starts from
BaseDem(grades, dem) ==
    IF ElevationTruthy(grades.default_elevation)
    THEN [c \in Cells |-> grades.default_elevation.value]
    ELSE IF grades.baseline_dem THEN dem ELSE Zeros

\* int(pad_size_deg / grid_res_deg), int(road_width_deg / (2 * grid_res_deg))
PadRadius(pad_size, resolution) == pad_size \div resolution
RoadRadius(width, resolution) == width \div (2 * resolution)

RECURSIVE StampAssets(_, _, _, _)
StampAssets(grid, assets, resolution, k) ==
    IF k > Len(assets) THEN grid
    ELSE StampAssets(
            IF ElevationTruthy(assets[k].pad_elevation)
            THEN Stamp(grid, assets[k].cell,
                       PadRadius(assets[k].pad_size, resolution),
                       assets[k].pad_elevation.value)
            ELSE grid,
            assets, resolution, k + 1)

\* the elevation of the vertex at position idx (from 1) of a road
VertexElevation(road, idx, default_elevation) ==
    IF idx <= Len(road.elevations) THEN road.elevations[idx]
    ELSE IF ElevationTruthy(default_elevation)
         THEN default_elevation.value ELSE 0

RECURSIVE StampRoad(_, _, _, _, _)
StampRoad(grid, road, default_elevation, resolution, idx) ==
    IF idx > Len(road.centerline) THEN grid
    ELSE StampRoad(
            Stamp(grid, road.centerline[idx],
                  RoadRadius(road.width, resolution),
                  VertexElevation(road, idx, default_elevation)),
            road, default_elevation, resolution, idx + 1)

RECURSIVE StampRoads(_, _, _, _, _)
StampRoads(grid, roads, default_elevation, resolution, k) ==
    IF k > Len(roads) THEN grid
    ELSE StampRoads(
            StampRoad(grid, roads[k], default_elevation, resolution, 1),
            roads, default_elevation, resolution, k + 1)

\* the elevations used at the vertices of the roads, in order
RECURSIVE VertexElevations(_, _, _)
VertexElevations(roads, default_elevation, k) ==
    IF k > Len(roads) THEN <<>>
    ELSE [idx \in 1..Len(roads[k].centerline) |->
             VertexElevation(roads[k], idx, default_elevation)]
         \o VertexElevations(roads, default_elevation, k + 1)

\* the cell is skipped by `continue`
Skipped(boundary, c) == boundary.given /\ c \notin boundary.inside

\* variant: the depth is recorded whichever grid is the higher
CellCutEitherWay(existing, proposed) == CfAbs(existing - proposed)

\* cut_volumes[i, j] of a cell that is not skipped
CellCut(existing, proposed) ==
    IF proposed < existing THEN existing - proposed ELSE 0

\* fill_volumes[i, j] of a cell that is not skipped
CellFill(existing, proposed) ==
    IF proposed < existing THEN 0
    ELSE IF proposed > existing THEN proposed - existing ELSE 0

\* np.sum over the grid
RECURSIVE SumOver(_, _)
SumOver(grid, cells) ==
    IF cells = {} THEN 0
    ELSE LET c == CHOOSE x \in cells : TRUE
         IN grid[c] + SumOver(grid, cells \ {c})

CutFillInit == CutFillIdle

\* calculate_volumes is called
CfCall(dem, grades, boundary, resolution) ==
    /\ cf_pc = "idle"
    /\ cf_in' = [dem |-> dem, grades |-> grades, boundary |-> boundary,
                 resolution |-> resolution]
    /\ cf_pc' = "base"
    /\ proposed_dem' = <<>>
    /\ base_dem' = <<>>
    /\ vertex_elev' = <<>>
    /\ cut_volumes' = <<>>
    /\ fill_volumes' = <<>>
    /\ cf_out' = [absent |-> TRUE]
    /\ UNCHANGED notCutFill

\* _create_proposed_dem: the default elevation, the baseline or zeros
CfBase ==
    /\ cf_pc = "base"
    /\ proposed_dem' = BaseDem(cf_in.grades, cf_in.dem)
    /\ base_dem' = BaseDem(cf_in.grades, cf_in.dem)
    /\ cf_pc' = "pads"
    /\ UNCHANGED <<cf_in, vertex_elev, cut_volumes, fill_volumes, cf_out,
                   notCutFill>>

\* _create_proposed_dem: the asset pads
CfPads ==
    /\ cf_pc = "pads"
    /\ proposed_dem' = StampAssets(proposed_dem, cf_in.grades.assets,
                                   cf_in.resolution, 1)
    /\ cf_pc' = "roads"
    /\ UNCHANGED <<cf_in, base_dem, vertex_elev, cut_volumes, fill_volumes,
                   cf_out, notCutFill>>

\* _create_proposed_dem: the road grades
CfRoads ==
    /\ cf_pc = "roads"
    /\ proposed_dem' = StampRoads(proposed_dem, cf_in.grades.roads,
                                  cf_in.grades.default_elevation,
                                  cf_in.resolution, 1)
    /\ vertex_elev' = VertexElevations(cf_in.grades.roads,
                                       cf_in.grades.default_elevation, 1)
    /\ cf_pc' = "cells"
    /\ UNCHANGED <<cf_in, base_dem, cut_volumes, fill_volumes, cf_out,
                   notCutFill>>

\* the loop over the cells of the grid
CfCells ==
    /\ cf_pc = "cells"
    /\ cut_volumes' =
          [c \in Cells |->
              IF Skipped(cf_in.boundary, c) THEN 0
              ELSE CellCut(cf_in.dem[c], proposed_dem[c])]
    /\ fill_volumes' =
          [c \in Cells |->
              IF Skipped(cf_in.boundary, c) THEN 0
              ELSE CellFill(cf_in.dem[c], proposed_dem[c])]
    /\ cf_pc' = "totals"
    /\ UNCHANGED <<cf_in, proposed_dem, base_dem, vertex_elev, cf_out,
                   notCutFill>>

\* the volumes in cubic feet and the returned dictionary
CfTotals ==
    /\ cf_pc = "totals"
    /\ LET cell_area == cf_in.resolution * cf_in.resolution
           total_cut == SumOver(cut_volumes, Cells) * cell_area
           total_fill == SumOver(fill_volumes, Cells) * cell_area
       IN cf_out' = [cut_volume_ft3 |-> total_cut,
                     fill_volume_ft3 |-> total_fill,
                     net_volume_ft3 |-> total_cut - total_fill]
    /\ cf_pc' = "done"
    /\ UNCHANGED <<cf_in, proposed_dem, base_dem, vertex_elev, cut_volumes,
                   fill_volumes, notCutFill>>

\* the caller has the dictionary
CfReturn ==
    /\ cf_pc = "done"
    /\ cf_pc' = "idle"
    /\ cf_in' = [absent |-> TRUE]
    /\ proposed_dem' = <<>>
    /\ base_dem' = <<>>
    /\ vertex_elev' = <<>>
    /\ cut_volumes' = <<>>
    /\ fill_volumes' = <<>>
    /\ cf_out' = [absent |-> TRUE]
    /\ UNCHANGED notCutFill

ProposedGrades ==
    [default_elevation : OptionalElevations, baseline_dem : BOOLEAN,
     assets : AssetLists, roads : RoadLists]

InitCutFill ==
    /\ now = 0 /\ RateInit /\ OptInitAs(FALSE) /\ CacheInit /\ MemoInit
    /\ PlaceIdle /\ CutFillInit /\ CutFillAlone

NextCutFill ==
    \/ /\ cf_pc = "idle"
       /\ \E dem \in Grids, grades \in ProposedGrades,
             boundary \in Boundaries, resolution \in CfResolutions :
               CfCall(dem, grades, boundary, resolution)
    \/ CfBase
    \/ CfPads
    \/ CfRoads
    \/ CfCells
    \/ CfTotals
    \/ CfReturn

SpecCutFill == InitCutFill /\ [][NextCutFill]_vars

\* the loop over the cells has run
CellsDone == cf_pc \in {"totals", "done"}

\* the depths of a cell as the sign convention gives them
DepthsByConvention(c) ==
    /\ cut_volumes[c] =
          (IF cf_in.dem[c] > proposed_dem[c]
           THEN cf_in.dem[c] - proposed_dem[c] ELSE 0)
    /\ fill_volumes[c] =
          (IF proposed_dem[c] > cf_in.dem[c]
           THEN proposed_dem[c] - cf_in.dem[c] ELSE 0)

\* the totals are the sums of the depths times the cell area
TotalsFromDepths ==
    cf_pc = "done" =>
        /\ cf_out.cut_volume_ft3 =
              SumOver(cut_volumes, Cells) * cf_in.resolution * cf_in.resolution
        /\ cf_out.fill_volume_ft3 =
              SumOver(fill_volumes, Cells) * cf_in.resolution * cf_in.resolution
        /\ cf_out.net_volume_ft3 =
              cf_out.cut_volume_ft3 - cf_out.fill_volume_ft3
        /\ (\A c \in Cells : cf_in.dem[c] = proposed_dem[c]) =>
              /\ cf_out.cut_volume_ft3 = 0
              /\ cf_out.fill_volume_ft3 = 0
              /\ cf_out.net_volume_ft3 = 0

\* C21 as stated: every cell of every grid has cut = existing - proposed when
\* existing > proposed else 0 and fill = proposed - existing when proposed >
\* existing else 0, no cell has both, and the totals are the sums of the
\* depths times resolution squared, with net = cut - fill and all 0 for equal
\* grids.
C21_EveryCellByConvention ==
    /\ CellsDone =>
          \A c \in Cells :
              /\ DepthsByConvention(c)
              /\ ~(cut_volumes[c] > 0 /\ fill_volumes[c] > 0)
    /\ TotalsFromDepths

\* C21, amended: the sign convention holds for every cell that the property
\* boundary does not mask out (every cell when no boundary is given); a cell
\* outside the boundary has cut 0 and fill 0; no cell has both cut and fill
\* positive; the totals are the sums of the depths times resolution squared,
\* net = cut - fill, and all three are 0 for equal grids.
C21_UnmaskedCellsByConvention ==
    /\ CellsDone =>
          \A c \in Cells :
              /\ ~Skipped(cf_in.boundary, c) => DepthsByConvention(c)
              /\ Skipped(cf_in.boundary, c) =>
                    cut_volumes[c] = 0 /\ fill_volumes[c] = 0
              /\ ~(cut_volumes[c] > 0 /\ fill_volumes[c] > 0)
    /\ TotalsFromDepths

\* a call has returned cut 1000 cubic feet and fill 0: one cell with existing
\* 100 and proposed 90 at a 10 ft resolution, the rest of the grid unchanged
C21_Witness ==
    /\ cf_pc = "done"
    /\ cf_in.resolution = 10
    /\ cf_in.dem[<<0, 0>>] = 100 /\ proposed_dem[<<0, 0>>] = 90
    /\ \A c \in Cells \ {<<0, 0>>} : cf_in.dem[c] = proposed_dem[c]
    /\ cf_out.cut_volume_ft3 = 1000 /\ cf_out.fill_volume_ft3 = 0

\* a call has returned after a cell outside the boundary was skipped although
\* its grids differ
MaskedCellSkipped ==
    /\ cf_pc = "done"
    /\ \E c \in Cells :
          /\ Skipped(cf_in.boundary, c)
          /\ cf_in.dem[c] > proposed_dem[c]
          /\ cut_volumes[c] = 0

\* the starting grid is set
BaseSet == cf_pc \notin {"idle", "base"}

\* C22: the proposed grid starts with every cell at the default elevation
\* whenever one is given, 0 included; from the baseline grid only when no
\* default is given; from zeros only when neither is given; and a road vertex
\* beyond the end of the road's elevation list gets the default elevation
\* when one is given.
C22_DefaultElevationWhenGiven ==
    /\ BaseSet =>
          /\ cf_in.grades.default_elevation.given =>
                \A c \in Cells :
                    base_dem[c] = cf_in.grades.default_elevation.value
          /\ (~cf_in.grades.default_elevation.given
                /\ cf_in.grades.baseline_dem) => base_dem = cf_in.dem
          /\ (~cf_in.grades.default_elevation.given
                /\ ~cf_in.grades.baseline_dem) => base_dem = Zeros
    /\ (cf_pc \in {"cells", "totals", "done"}
          /\ cf_in.grades.default_elevation.given) =>
          \A k \in 1..Len(cf_in.grades.roads) :
              \A idx \in 1..Len(cf_in.grades.roads[k].centerline) :
                  idx > Len(cf_in.grades.roads[k].elevations) =>
                      vertex_elev[idx] = cf_in.grades.default_elevation.value

\* what the code keeps: a default elevation other than 0 is the starting
\* grid; a default of 0 is treated as no default
DefaultElevationWhenNonZero ==
    BaseSet =>
        /\ ElevationTruthy(cf_in.grades.default_elevation) =>
              \A c \in Cells :
                  base_dem[c] = cf_in.grades.default_elevation.value
        /\ (~ElevationTruthy(cf_in.grades.default_elevation)
              /\ cf_in.grades.baseline_dem) => base_dem = cf_in.dem
        /\ (~ElevationTruthy(cf_in.grades.default_elevation)
              /\ ~cf_in.grades.baseline_dem) => base_dem = Zeros

\* a default elevation of 0 was given with a baseline grid, and the proposed
\* grid started from the baseline
ZeroDefaultIgnored ==
    /\ BaseSet
    /\ cf_in.grades.default_elevation = GivenElevation(0)
    /\ cf_in.grades.baseline_dem
    /\ \E c \in Cells : base_dem[c] # 0

(***************************************************************************)
(* SpecGeoJson: handlers/export.py, _export_geojson                        *)
(***************************************************************************)

\* longest list of a layout
MaxItems == 2

\* a property or zone with or without a 'geometry', a road with or without a
\* non-empty 'centerline': TRUE when it has one
ItemLists == UNION {[1..n -> BOOLEAN] : n \in 0..MaxItems}
\* assets: every asset has a location (the default is [x, y])
AssetItemLists == {[i \in 1..n |-> TRUE] : n \in 0..MaxItems}

Layouts ==
    [properties : ItemLists, exclusion_zones : ItemLists,
     assets : AssetItemLists, roads : ItemLists]

\* the features one of the four loops appends: one per item that passes the
\* `if geometry:` / `if centerline:` test of its loop
RECURSIVE FeaturesOf(_, _, _)
FeaturesOf(items, kind, k) ==
    IF k > Len(items) THEN <<>>
    ELSE (IF items[k] THEN <<[type |-> kind, index |-> k]>> ELSE <<>>)
         \o FeaturesOf(items, kind, k + 1)

\* the metadata block
Metadata(features, layout) ==
    [feature_count |-> Len(features),
     asset_count |-> Len(layout.assets),
     road_count |-> Len(layout.roads),
     exclusion_zone_count |-> Len(layout.exclusion_zones)]

GeoJsonInit == GeoJsonIdle

\* _export_geojson is called with the layout
GjCall(layout) ==
    /\ gj_pc = "idle"
    /\ gj_layout' = layout
    /\ gj_features' = <<>>
    /\ gj_metadata' = [absent |-> TRUE]
    /\ gj_pc' = "properties"
    /\ UNCHANGED notGeoJson

\* one of the four loops, then the position after it
GjLoop(at, items, kind, next) ==
    /\ gj_pc = at
    /\ gj_features' = gj_features \o FeaturesOf(items, kind, 1)
    /\ gj_pc' = next
    /\ UNCHANGED <<gj_layout, gj_metadata, notGeoJson>>

GjProperties ==
    GjLoop("properties", gj_layout.properties, "property", "exclusion_zones")
GjExclusionZones ==
    GjLoop("exclusion_zones", gj_layout.exclusion_zones, "exclusion_zone",
           "assets")
GjAssets == GjLoop("assets", gj_layout.assets, "asset", "roads")
GjRoads == GjLoop("roads", gj_layout.roads, "road", "metadata")

\* the FeatureCollection with its metadata is returned
GjRespond ==
    /\ gj_pc = "metadata"
    /\ gj_metadata' = Metadata(gj_features, gj_layout)
    /\ gj_pc' = "done"
    /\ UNCHANGED <<gj_layout, gj_features, notGeoJson>>

\* the response has been sent
GjFinish ==
    /\ gj_pc = "done"
    /\ gj_pc' = "idle"
    /\ gj_layout' = [absent |-> TRUE]
    /\ gj_features' = <<>>
    /\ gj_metadata' = [absent |-> TRUE]
    /\ UNCHANGED notGeoJson

InitGeoJson ==
    /\ now = 0 /\ RateInit /\ OptInitAs(FALSE) /\ CacheInit /\ MemoInit
    /\ PlaceIdle /\ GeoJsonInit /\ GeoJsonAlone

NextGeoJson ==
    \/ /\ gj_pc = "idle"
       /\ \E layout \in Layouts : GjCall(layout)
    \/ GjProperties
    \/ GjExclusionZones
    \/ GjAssets
    \/ GjRoads
    \/ GjRespond
    \/ GjFinish

SpecGeoJson == InitGeoJson /\ [][NextGeoJson]_vars

\* number of features of a kind in the collection
FeatureCount(kind) ==
    Cardinality({i \in 1..Len(gj_features) : gj_features[i].type = kind})

\* C23: the collection holds one feature per property, per exclusion zone,
\* per asset and per road of the layout; feature_count is the number of
\* features, and asset_count, road_count and exclusion_zone_count are the
\* numbers of asset, road and exclusion-zone features in the collection.
C23_CountsAgreeWithFeatures ==
    gj_pc = "done" =>
        /\ FeatureCount("property") = Len(gj_layout.properties)
        /\ FeatureCount("exclusion_zone") = Len(gj_layout.exclusion_zones)
        /\ FeatureCount("asset") = Len(gj_layout.assets)
        /\ FeatureCount("road") = Len(gj_layout.roads)
        /\ gj_metadata.feature_count = Len(gj_features)
        /\ gj_metadata.asset_count = FeatureCount("asset")
        /\ gj_metadata.road_count = FeatureCount("road")
        /\ gj_metadata.exclusion_zone_count = FeatureCount("exclusion_zone")

\* what the code keeps: feature_count is the number of features, the other
\* counts are the lengths of the layout's lists, and a list whose items all
\* have their geometry has one feature per item
CountsAreListLengths ==
    gj_pc = "done" =>
        /\ gj_metadata.feature_count = Len(gj_features)
        /\ gj_metadata.asset_count = Len(gj_layout.assets)
        /\ gj_metadata.road_count = Len(gj_layout.roads)
        /\ gj_metadata.exclusion_zone_count = Len(gj_layout.exclusion_zones)
        /\ FeatureCount("asset") = Len(gj_layout.assets)
        /\ (\A k \in 1..Len(gj_layout.roads) : gj_layout.roads[k]) =>
              FeatureCount("road") = Len(gj_layout.roads)
        /\ (\A k \in 1..Len(gj_layout.exclusion_zones) :
                gj_layout.exclusion_zones[k]) =>
              FeatureCount("exclusion_zone") = Len(gj_layout.exclusion_zones)
        /\ (\A k \in 1..Len(gj_layout.properties) : gj_layout.properties[k]) =>
              FeatureCount("property") = Len(gj_layout.properties)

\* 1 property, 1 zone, 2 assets and 1 road, each with its geometry, gave 5
\* features and counts 2, 1, 1
FiveFeaturesExported ==
    /\ gj_pc = "done"
    /\ Len(gj_layout.properties) = 1 /\ Len(gj_layout.exclusion_zones) = 1
    /\ Len(gj_layout.assets) = 2 /\ Len(gj_layout.roads) = 1
    /\ Len(gj_features) = 5
    /\ gj_metadata.asset_count = 2 /\ gj_metadata.road_count = 1
    /\ gj_metadata.exclusion_zone_count = 1

\* a road without a centerline was exported: road_count counts it, the
\* collection has no feature for it
RoadCountedWithoutFeature ==
    /\ gj_pc = "done"
    /\ gj_metadata.road_count = 1
    /\ FeatureCount("road") = 0

(***************************************************************************)
(* SpecRateInfo: middleware/rate_limit.py, get_rate_limit_info beside      *)
(* check_rate_limit                                                        *)
(***************************************************************************)

\* the worker that serves the throttled requests of this specification
CheckingThread == CHOOSE t \in Threads : \A u \in Threads : t <= u

\* remaining = limit_config['max_requests'] - len(entry['requests'])
InfoRemaining(requests, cfg) == cfg.max_requests - Len(requests)

\* variant: limited only below zero
InfoLimitedBelowZero(remaining) == remaining < 0

\* 'limited': remaining <= 0
InfoLimited(remaining) == remaining <= 0

\* the dictionary get_rate_limit_info returns
InfoResult(store, k, at) ==
    LET cfg == LimitConfig(k[2])
    IN IF cfg = NoConfig THEN [limited |-> FALSE, remaining |-> -1]
       ELSE IF store[k] = NoEntry
            THEN [limited |-> FALSE, remaining |-> cfg.max_requests]
            ELSE LET remaining ==
                        InfoRemaining(PruneList(store[k].requests, at,
                                                cfg.window_seconds), cfg)
                 IN [limited |-> InfoLimited(remaining),
                     remaining |-> IF remaining < 0 THEN 0 ELSE remaining]

\* the store get_rate_limit_info leaves: the list of the key is pruned
InfoStore(store, k, at) ==
    LET cfg == LimitConfig(k[2])
    IN IF cfg = NoConfig \/ store[k] = NoEntry THEN store
       ELSE [store EXCEPT ![k].requests =
                PruneList(store[k].requests, at, cfg.window_seconds)]

InfoInit == InfoIdle

\* get_rate_limit_info: the whole body runs with _rate_limit_lock held
RateInfo(c, p) ==
    /\ ipc = "idle"
    /\ LockFree(rl_lock)
    /\ info_req' = [client |-> c, path |-> p]
    /\ info_ret' = InfoResult(rl_store, <<c, p>>, now)
    /\ rl_store' = InfoStore(rl_store, <<c, p>>, now)
    /\ ipc' = "done"
    /\ UNCHANGED <<rl_lock, rpc, rreq, rnow, rres, rstatus, rhandled, nreq,
                   accepted, rejectedEver>>
    /\ UNCHANGED <<now, notInfo>>

\* the caller has the dictionary
InfoReturn ==
    /\ ipc = "done"
    /\ ipc' = "idle"
    /\ info_req' = [absent |-> TRUE]
    /\ info_ret' = [absent |-> TRUE]
    /\ UNCHANGED <<now, rlVars, notInfo>>

InitRateInfo ==
    /\ now = 0 /\ RateInit /\ OptInitAs(FALSE) /\ CacheInit /\ MemoInit
    /\ PlaceIdle /\ InfoInit /\ InfoAlone

NextRateInfo ==
    \/ Tick
    \/ RateArrive(CheckingThread)
    \/ RateAcquire(CheckingThread)
    \/ RatePrune(CheckingThread)
    \/ RateCheck(CheckingThread)
    \/ RateFinish(CheckingThread)
    \/ \E c \in Clients, p \in PathNames : RateInfo(c, p)
    \/ InfoReturn

SpecRateInfo == InitRateInfo /\ [][NextRateInfo]_vars

\* what check_rate_limit would answer for key k on the store at time at
WouldAccept(store, k, at) ==
    LET cfg == LimitConfig(k[2])
    IN \/ cfg = NoConfig
       \/ store[k] = NoEntry /\ cfg.max_requests > 0
       \/ /\ store[k] # NoEntry
          /\ Len(PruneList(store[k].requests, at, cfg.window_seconds))
                < cfg.max_requests

\* the timestamps of a list
Stamps(requests) == {requests[i] : i \in DOMAIN requests}

\* a step of get_rate_limit_info
InfoStep == ipc = "idle" /\ ipc' = "done"

\* C24: a get_rate_limit_info call adds no timestamp to the store and no
\* entry, leaves every other key as it was, does not change what the next
\* check_rate_limit of the same client and path answers at any later time,
\* and reports limited exactly when a check_rate_limit at the same instant
\* would reject.
C24_InfoDoesNotConsume ==
    [][InfoStep =>
        LET k == <<info_req'.client, info_req'.path>>
        IN /\ \A j \in Keys \ {k} : rl_store'[j] = rl_store[j]
           /\ (rl_store[k] = NoEntry) = (rl_store'[k] = NoEntry)
           /\ rl_store[k] # NoEntry =>
                 /\ Len(rl_store'[k].requests) <= Len(rl_store[k].requests)
                 /\ Stamps(rl_store'[k].requests)
                       \subseteq Stamps(rl_store[k].requests)
           /\ \A at \in now..MaxTime :
                 WouldAccept(rl_store', k, at) = WouldAccept(rl_store, k, at)
           /\ info_ret'.limited = ~WouldAccept(rl_store, k, now)
      ]_vars

\* get_rate_limit_info has reported limited for a key whose window is full
C24_Witness ==
    /\ ipc = "done"
    /\ info_ret.limited
    /\ info_ret.remaining = 0
    /\ Len(rl_store[<<info_req.client, info_req.path>>].requests) = 5

\* get_rate_limit_info has pruned the list of a key that was full
InfoPruned ==
    /\ ipc = "done"
    /\ ~info_ret.limited
    /\ Len(accepted[<<info_req.client, info_req.path>>]) >= 5
    /\ rl_store[<<info_req.client, info_req.path>>].requests = <<>>

(***************************************************************************)
(* SpecOptTime: handlers/optimize.py, optimize_layout while time passes    *)
(***************************************************************************)

OptMaxTime == 450
OptTickStep == 150

\* "Cache result for 5 minutes", in seconds
RESULT_CACHE_SECONDS == 300

\* time passes between the steps of the requests
OptClock ==
    /\ now + OptTickStep <= OptMaxTime
    /\ now' = now + OptTickStep
    /\ UNCHANGED <<rlVars, optVars, cacheVars, memoVars, placeVars, svcVars>>

InitOptTime ==
    /\ now = 0 /\ RateInit /\ OptInit /\ CacheInit /\ MemoInit
    /\ PlaceIdle /\ SvcIdle

NextOptTime ==
    \/ OptClock
    \/ \E t \in Threads : OptArrive(t)
    \/ \E t \in Threads : OptCheck(t)
    \/ \E t \in Threads : OptProcess(t)
    \/ \E t \in Threads : OptStore(t)
    \/ \E t \in Threads : OptEvict(t)
    \/ \E t \in Threads : OptExcept(t)
    \/ \E t \in Threads : OptFinish(t)

SpecOptTime == InitOptTime /\ [][NextOptTime]_vars

\* seconds since the result now cached for fp was stored
ResultAge(fp) == now - storeTimes[LastStored(fp)]

\* the first locked block of thread t runs in this step
OptCheckStep(t) == opc[t] = "check" /\ opc'[t] # "check"

\* C26: a stored result is replayed to an identical request for 5 minutes
\* after it was stored, and an identical request arriving later than that is
\* computed again.
C26_ResultKeptFiveMinutes ==
    [][\A t \in Threads :
        (OptCheckStep(t) /\ CacheHit(results, ofp[t])) =>
            IF ResultAge(ofp[t]) <= RESULT_CACHE_SECONDS
            THEN oresp'[t] = [status |-> 200,
                              body |-> DictGet(results, ofp[t])]
            ELSE opc'[t] = "process"
      ]_vars

\* what the code keeps: a result in the cache is replayed whatever its age
ResultReplayedWhileCached ==
    [][\A t \in Threads :
        (OptCheckStep(t) /\ CacheHit(results, ofp[t])) =>
            /\ oresp'[t] = [status |-> 200, body |-> DictGet(results, ofp[t])]
            /\ opc'[t] = "done"
      ]_vars

\* a request has been answered with a result stored more than 5 minutes
\* before
StaleResultReplayed ==
    \E t \in Threads :
        /\ opc[t] = "done" /\ oresp[t].status = 200
        /\ CacheHit(results, ofp[t])
        /\ oresp[t].body = DictGet(results, ofp[t])
        /\ ResultAge(ofp[t]) > RESULT_CACHE_SECONDS
        /\ Len(storeLog) \in {1, RESULT_CACHE_MAX}

\* the requests being processed with fingerprint fp: between the marking of
\* the fingerprint and the locked block that ends the request
Processing(fp) ==
    {t \in Threads : ofp[t] = fp /\ opc[t] \in {"process", "store", "except"}}

\* C27: while the request lock is free no fingerprint is both in the
\* in-flight map and in the result cache, every fingerprint in the in-flight
\* map belongs to exactly one request being processed, and the fingerprint of
\* a request that has returned with its result or with HTTP 500 is not in
\* the in-flight map on its account.
C27_PendingAndResultsDisjoint ==
    RequestLockFree(req_lock) =>
        /\ \A fp \in pending : ~CacheHit(results, fp)
        /\ \A fp \in pending : Cardinality(Processing(fp)) = 1
        /\ \A t \in Threads :
              (opc[t] = "done" /\ oresp[t].status \in {200, 500}
                 /\ Processing(ofp[t]) = {}) => ofp[t] \notin pending

\* one request is being processed and marked in flight while another with
\* the same fingerprint has returned HTTP 500 and a third fingerprint has its
\* result in the cache
C27_Witness ==
    /\ RequestLockFree(req_lock)
    /\ \E t1, t2 \in Threads :
          /\ t1 # t2 /\ ofp[t1] = ofp[t2]
          /\ opc[t1] = "done" /\ oresp[t1].status = 500
          /\ opc[t2] = "process" /\ ofp[t2] \in pending
    /\ Len(results) > 0

\* the step in which check_rate_limit answers the request of thread t
RateCheckStep(t) == rpc[t] = "check" /\ rpc'[t] = "done"

\* C28: a rejected request leaves the timestamp list of its key as it was;
\* a request whose key has no accepted timestamp younger than the window is
\* accepted, whatever was rejected before it, and in general the answer
\* depends on the accepted timestamps inside the window only; a request to
\* a path with no configured limit is accepted and leaves the store as it
\* was.
C28_RejectionNotRecorded ==
    [][\A t \in Threads :
        /\ (RateCheckStep(t) /\ ~rres'[t]) =>
              /\ rl_store'[KeyOf(t)] = rl_store[KeyOf(t)]
              /\ accepted' = accepted
        /\ (RateCheckStep(t)
              /\ \A i \in DOMAIN accepted[KeyOf(t)] :
                    accepted[KeyOf(t)][i]
                       <= rnow[t] - LimitConfig(rreq[t].path).window_seconds)
              => rres'[t] /\ rhandled'[t]
        /\ RateCheckStep(t) =>
              (rres'[t] <=>
                 AcceptedInWindow(KeyOf(t), rnow[t],
                     LimitConfig(rreq[t].path).window_seconds)
                   < LimitConfig(rreq[t].path).max_requests)
        /\ (rpc[t] = "idle" /\ rpc'[t] # "idle"
              /\ LimitConfig(rreq'[t].path) = NoConfig) =>
              /\ rpc'[t] = "done" /\ rres'[t] /\ rhandled'[t]
              /\ rl_store' = rl_store
      ]_vars

\* a client was rejected inside a full window and was accepted again once
\* its accepted timestamps were a window old: its list holds the new
\* timestamp only
C28_Witness ==
    \E t \in Threads :
        /\ rpc[t] = "done" /\ rres[t]
        /\ KeyOf(t) \in rejectedEver
        /\ nreq >= 7
        /\ Len(accepted[KeyOf(t)]) = 6
        /\ rl_store[KeyOf(t)].requests = <<accepted[KeyOf(t)][6]>>

\* whether the entry of the i-th source in a stored result carries an error
StoredError(value, i) == ((value - 1) \div (2 ^ (Len(Sources) - i))) % 2 = 1

\* C29: whatever the three sources came to, the combined result is stored
\* under the key of the call for the TTL, with the error annotation of every
\* source that failed; a later call for the same key before the entry
\* expires returns the stored result as it is and queries no source.
C29_ResultCachedWithErrors ==
    /\ [][(reg_pc = "store" /\ reg_pc' = "done") =>
            LET entry == cache'[RegCacheKey(reg_bounds)]
            IN /\ entry # NoCacheEntry
               /\ entry.expires_at = now + RegTtl
               /\ entry.value = reg_ret'
               /\ \A i \in 1..Len(Sources) :
                     StoredError(entry.value, i) = (reg_out[Sources[i]] # "data")
         ]_vars
    /\ [][(reg_pc = "idle" /\ reg_pc' # "idle"
             /\ cache[RegCacheKey(reg_bounds')] # NoCacheEntry
             /\ now < cache[RegCacheKey(reg_bounds')].expires_at) =>
            /\ reg_pc' = "done"
            /\ reg_ret' = cache[RegCacheKey(reg_bounds')].value
            /\ reg_queries' = [s \in SourceNames |-> 0]
            /\ cache' = cache
         ]_vars
    /\ [](reg_pc \in {"idle", "done"} \/ reg_ret = None)

\* a second call for the same bounds has returned the stored result of a call
\* whose flood-zone and topographic sources failed, without querying a source
C29_Witness ==
    /\ reg_pc = "done" /\ reg_calls = 2
    /\ \A s \in SourceNames : reg_queries[s] = 0
    /\ reg_ret = cache[RegCacheKey(reg_bounds)].value
    /\ StoredError(reg_ret, 1) /\ ~StoredError(reg_ret, 2)
    /\ StoredError(reg_ret, 3)
    /\ now > cache[RegCacheKey(reg_bounds)].created_at

(***************************************************************************)
(* handlers/optimize.py: the request fingerprint on request bodies.        *)
(***************************************************************************)
MaxOptRequests == 2

\* Optional[...] fields: None, or a value
NotGiven == [given |-> FALSE]
Given(v) == [given |-> TRUE, value |-> v]

\* AssetRequirement(type, count, attributes)
AssetRequirement(type, count, attributes) ==
    [type |-> type, count |-> count, attributes |-> attributes]

\* an OptimizeRequest; the boundary is a list of points
BaseRequest ==
    [property_boundary |-> <<0, 1, 2>>,
     exclusion_zones |-> NotGiven,
     asset_requirements |-> <<AssetRequirement("building", 1, NotGiven)>>,
     entry_point |-> <<0, 0>>,
     terrain_data |-> NotGiven,
     fetch_regulatory |-> TRUE]

\* the request bodies that arrive: the base request and requests that
\* differ from it in one field, or in terrain_data and attributes together
OptimizeRequests ==
    { BaseRequest,
      [BaseRequest EXCEPT !.terrain_data = Given("steep")],
      [BaseRequest EXCEPT !.asset_requirements =
          <<AssetRequirement("building", 1, Given("tall"))>>],
      [BaseRequest EXCEPT !.terrain_data = Given("flat"),
                          !.asset_requirements =
          <<AssetRequirement("building", 1, Given("tall"))>>],
      [BaseRequest EXCEPT !.property_boundary = <<0, 1>>],
      [BaseRequest EXCEPT !.property_boundary = <<0, 1, 3>>],
      [BaseRequest EXCEPT !.exclusion_zones = Given(<<<<4, 5, 6>>>>)],
      [BaseRequest EXCEPT !.asset_requirements =
          <<AssetRequirement("building", 2, NotGiven)>>],
      [BaseRequest EXCEPT !.asset_requirements =
          <<AssetRequirement("parking", 1, NotGiven)>>],
      [BaseRequest EXCEPT !.entry_point = <<1, 0>>],
      [BaseRequest EXCEPT !.fetch_regulatory = FALSE] }

\* [(r.type, r.count) for r in request.asset_requirements]
TypeCountPairs(reqs) ==
    [i \in DOMAIN reqs |-> <<reqs[i].type, reqs[i].count>>]

\* variant: terrain_data is part of the hashed document
RequestHashWithTerrain(request) ==
    [property_boundary |-> request.property_boundary,
     exclusion_zones |-> request.exclusion_zones,
     asset_requirements |-> TypeCountPairs(request.asset_requirements),
     entry_point |-> request.entry_point,
     fetch_regulatory |-> request.fetch_regulatory,
     terrain_data |-> request.terrain_data]

\* _get_request_hash: the digest of the JSON document of five entries.  A
\* digest stands for the document it was taken of (SHA-256 is taken to be
\* free of collisions on the documents of the model).
RequestHash(request) ==
    [property_boundary |-> request.property_boundary,
     exclusion_zones |-> request.exclusion_zones,
     asset_requirements |-> TypeCountPairs(request.asset_requirements),
     entry_point |-> request.entry_point,
     fetch_regulatory |-> request.fetch_regulatory]

\* the asset_requirements list handed to the placer and the AI analysis
PreparedRequirements(reqs) ==
    [i \in DOMAIN reqs |->
        [type |-> reqs[i].type, count |-> reqs[i].count,
         attributes |-> IF reqs[i].attributes.given
                        THEN reqs[i].attributes.value ELSE "none"]]

\* the JSONResponse of a request: the placement and the AI analysis stand
\* for the arguments they were computed from
ResponseOf(request) ==
    [assets |->
        [property_boundary |-> request.property_boundary,
         exclusion_zones |-> request.exclusion_zones,
         asset_requirements |->
             PreparedRequirements(request.asset_requirements),
         entry_point |-> request.entry_point,
         terrain_data |-> request.terrain_data],
     ai_analysis |->
        [asset_requirements |->
             PreparedRequirements(request.asset_requirements),
         terrain_analysis |-> request.terrain_data],
     regulatory_constraints |-> request.fetch_regulatory]

ReqInit ==
    /\ oreq = [t \in Threads |-> [absent |-> TRUE]]
    /\ narrived = 0

\* POST /optimize arrives with its body;
\* request_hash = _get_request_hash(request)
ReqArrive(t, request) ==
    /\ opc[t] = "idle"
    /\ narrived < MaxOptRequests
    /\ narrived' = narrived + 1
    /\ oreq' = [oreq EXCEPT ![t] = request]
    /\ ofp' = [ofp EXCEPT ![t] = RequestHash(request)]
    /\ opc' = [opc EXCEPT ![t] = "check"]
    /\ UNCHANGED <<pending, results, req_lock, obody, oresp, oseen, onfail,
                   storeLog, storeTimes>>
    /\ UNCHANGED notReq

\* the try block on the body of the request: boundary check, regulatory
\* fetch, placement, AI analysis, response building
ReqProcess(t) ==
    /\ opc[t] = "process"
    /\ IF Len(oreq[t].property_boundary) < 3
       THEN /\ opc' = [opc EXCEPT ![t] = "except"]
            /\ UNCHANGED <<obody, onfail>>
       ELSE \/ /\ onfail < MaxFailures
               /\ \E step \in FailingSteps : TRUE
               /\ onfail' = onfail + 1
               /\ opc' = [opc EXCEPT ![t] = "except"]
               /\ UNCHANGED obody
            \/ /\ obody' = [obody EXCEPT ![t] = ResponseOf(oreq[t])]
               /\ opc' = [opc EXCEPT ![t] = "store"]
               /\ UNCHANGED onfail
    /\ UNCHANGED <<pending, results, req_lock, ofp, oresp, oseen, storeLog,
                   storeTimes>>
    /\ UNCHANGED notOpt

\* the response has been sent; the worker is free for the next request
ReqFinish(t) ==
    /\ opc[t] = "done"
    /\ opc' = [opc EXCEPT ![t] = "idle"]
    /\ ofp' = [ofp EXCEPT ![t] = 0]
    /\ obody' = [obody EXCEPT ![t] = 0]
    /\ oresp' = [oresp EXCEPT ![t] = [status |-> 0, body |-> 0]]
    /\ oreq' = [oreq EXCEPT ![t] = [absent |-> TRUE]]
    /\ UNCHANGED <<pending, results, req_lock, oseen, onfail, storeLog,
                   storeTimes, narrived>>
    /\ UNCHANGED notReq

InitOptReq ==
    /\ now = 0 /\ RateInit /\ OptInitAs(FALSE) /\ CacheInit /\ MemoInit
    /\ PlaceIdle /\ ReqInit /\ ReqAlone

NextOptReq ==
    \/ \E t \in Threads :
          /\ opc[t] = "idle"
          /\ \E request \in OptimizeRequests : ReqArrive(t, request)
    \/ \E t \in Threads : OptCheck(t)
    \/ \E t \in Threads : ReqProcess(t)
    \/ \E t \in Threads : OptStore(t)
    \/ \E t \in Threads : OptEvict(t)
    \/ \E t \in Threads : OptExcept(t)
    \/ \E t \in Threads : ReqFinish(t)

SpecOptReq == InitOptReq /\ [][NextOptReq]_vars

\* two requests agree on boundary, exclusion zones, the (type, count) pairs
\* of the requirements, entry point and the regulatory-fetch flag
AgreeOnHashedFields(r1, r2) ==
    /\ r1.property_boundary = r2.property_boundary
    /\ r1.exclusion_zones = r2.exclusion_zones
    /\ Len(r1.asset_requirements) = Len(r2.asset_requirements)
    /\ \A i \in DOMAIN r1.asset_requirements :
          /\ r1.asset_requirements[i].type = r2.asset_requirements[i].type
          /\ r1.asset_requirements[i].count = r2.asset_requirements[i].count
    /\ r1.entry_point = r2.entry_point
    /\ r1.fetch_regulatory = r2.fetch_regulatory

\* the workers that hold a request
Handling == {t \in Threads : opc[t] # "idle"}

\* the requests in hand have one fingerprint exactly when they agree on the
\* hashed fields
FingerprintOfHashedFields ==
    \A t \in Handling : \A u \in Handling :
        (ofp[t] = ofp[u]) <=> AgreeOnHashedFields(oreq[t], oreq[u])

\* the first locked block of worker t answers
ReqCheckStep(t) == opc[t] = "check" /\ opc'[t] # "check"

\* the second locked block of worker t stores its response
ReqStoreStep(t) == opc[t] = "store" /\ opc'[t] = "evict"

\* C30: the fingerprint of a request is determined by its boundary,
\* exclusion zones, (type, count) pairs, entry point and fetch flag, and by
\* nothing else: requests that differ only in terrain_data or in the
\* attributes of their requirements have one fingerprint.  A response is
\* stored under the fingerprint as it was computed from the body of the
\* request that stored it and is not changed afterwards; a request whose
\* fingerprint has a stored response is answered 200 with that response,
\* and one whose fingerprint is being processed is answered 202.
C30_FingerprintIgnoresTerrain ==
    /\ []FingerprintOfHashedFields
    /\ [][\A t \in Threads :
            /\ ReqStoreStep(t) =>
                  DictGet(results', ofp[t]) = ResponseOf(oreq[t])
            /\ (ReqCheckStep(t) /\ DictHas(results, ofp[t])) =>
                  /\ oresp'[t] =
                        [status |-> 200, body |-> DictGet(results, ofp[t])]
                  /\ opc'[t] = "done"
                  /\ UNCHANGED <<results, pending>>
            /\ (ReqCheckStep(t) /\ ~DictHas(results, ofp[t])
                  /\ ofp[t] \in pending) =>
                  /\ oresp'[t].status = 202
                  /\ opc'[t] = "done"
                  /\ UNCHANGED <<results, pending>>
         ]_vars
    /\ [][\A i \in DOMAIN results : \A j \in DOMAIN results' :
            results'[j].key = results[i].key =>
                results'[j].value = results[i].value
         ]_vars

\* a request with terrain data and attributes has been answered 200 with the
\* response stored by a request that had neither
C30_Witness ==
    \E t \in Threads :
        /\ opc[t] = "done"
        /\ oresp[t].status = 200
        /\ oreq[t].terrain_data = Given("flat")
        /\ oreq[t].asset_requirements[1].attributes = Given("tall")
        /\ oresp[t].body = ResponseOf(BaseRequest)
        /\ oresp[t].body # ResponseOf(oreq[t])

\* while a request is being processed, a request that differs from it in
\* terrain_data only has been answered 202
AnsweredPendingAcrossTerrain ==
    \E t \in Threads : \E u \in Threads :
        /\ opc[t] = "done" /\ oresp[t].status = 202
        /\ opc[u] \in {"process", "store"}
        /\ oreq[t].terrain_data # oreq[u].terrain_data
        /\ AgreeOnHashedFields(oreq[t], oreq[u])

====
